---- MODULE Spec2Model ----
(***************************************************************************)
(* STREAM data viewer: the geospatial selection logic of the map component *)
(* (point-in-polygon containment, the HUC10-by-HUC6 resolver with its      *)
(* cache and request-id counter) and the selection state of the streams    *)
(* store.                                                                  *)
(*                                                                         *)
(* Seven state machines share the module's variables:                      *)
(*   SpecGeom     the pure containment functions applied to bounded inputs,*)
(*   SpecQuery    HUC6 clicks, remote query responses, route changes,      *)
(*   SpecSelect   the store's selection operations and the map clicks that *)
(*                drive them,                                              *)
(*   SpecMap      the map as a whole in a signed-in session,               *)
(*   SpecStore    the store's selection functions called with any argument,*)
(*   SpecSession  login, logout and download with their pending responses, *)
(*   SpecCodes    normalizeHucCode and the comparisons of normalized codes.*)
(* Each specification leaves the variables it does not use at their        *)
(* initial values.                                                         *)
(***************************************************************************)
EXTENDS Integers, Sequences, FiniteSets, TLC

VARIABLES
    \* ---- SpecGeom: one application of a containment function
    gOp,        \* which function is applied
    gPoint,     \* the point argument [x, y]
    gGeom,      \* the geometry / ring list argument
    gGauges,    \* streamsStore.gaugesGeoJson as seen by getGaugeIdsInLayer
    gDone,      \* the function has returned
    gInside,    \* return value of pointInPolygonRings / pointInGeometry
    gIds,       \* return value of getGaugeIdsInLayer
    \* ---- SpecCodes: one application of the HUC code functions
    codeCall,   \* the function, its arguments, its position and what it returned
    \* ---- the map component
    routeName,              \* route.name
    huc10QueryRequestId,    \* ref(0), the request-id counter
    huc10QueryCache,        \* Map: normalized HUC6 code -> feature collection
    huc10DetectedField,     \* ref(''), the field a where-query last succeeded on
    huc10Layer,             \* features on watershedLayers.huc10, in insertion order
    selectedHuc6Layer,      \* watershedLayers.selectedHuc6Layer ("none" for null)
    calls,                  \* click handlers awaiting a query: request id -> position
    huc10Highlighted,       \* features of the HUC10 layer drawn in the selected style
    \* ---- the streams store
    sessionToken,           \* ref(''): "" or the token the login endpoint issued
    sessionExpiresAt,       \* ref(null): "null", or a time "valid" / "expired" against now
    gaugesGeoJson,          \* ref(null): NoGauges or the gauge feature collection
    selectedGaugeIds,       \* ref([])
    selectedDomainCodes,    \* ref([])
    selectedDomainGaugeMap, \* ref({}): entries [key, value] in own-property order
    selectionBy,            \* ref('gauge'): gauge | domain
    selectionType,          \* ref('Single'): Single | Multiple
    pending,                \* store calls awaiting a response: login's position and the
                            \* fetches it awaits, requests in flight; the flags of loading
    \* ---- history (not read by the program)
    queriesIssued,          \* number of remote queries sent so far
    returned,               \* normalized code -> what queryHuc10ByHuc6 returned for it
    everDetected,           \* the fields a where-query has returned features on so far
    last                    \* the handler step taken last

geomVars == <<gOp, gPoint, gGeom, gGauges, gDone, gInside, gIds, codeCall>>

queryVars == <<routeName, huc10QueryRequestId, huc10QueryCache, huc10DetectedField,
               huc10Layer, selectedHuc6Layer, calls, queriesIssued, returned,
               everDetected>>

selectionVars == <<selectedGaugeIds, selectedDomainCodes, selectedDomainGaugeMap>>

storeVars == <<sessionToken, sessionExpiresAt, gaugesGeoJson, selectedGaugeIds,
               selectedDomainCodes, selectedDomainGaugeMap, selectionBy, selectionType,
               pending>>

vars == <<gOp, gPoint, gGeom, gGauges, gDone, gInside, gIds, codeCall,
          routeName, huc10QueryRequestId, huc10QueryCache, huc10DetectedField,
          huc10Layer, selectedHuc6Layer, calls, huc10Highlighted, queriesIssued, returned,
          everDetected,
          sessionToken, sessionExpiresAt, gaugesGeoJson, selectedGaugeIds,
          selectedDomainCodes, selectedDomainGaugeMap, selectionBy, selectionType,
          pending, last>>

(***************************************************************************)
(* Bounds of the model.                                                    *)
(***************************************************************************)
GridMax == 7            \* points and gauges lie on the grid 0..GridMax squared
MaxRings == 3           \* rings per polygon handed to pointInPolygonRings
MaxPolys == 2           \* member polygons per MultiPolygon
MaxGaugeFeatures == 2   \* features of a gauge collection in SpecGeom
MaxClicks == 3          \* HUC6 clicks that start a request (caps the counter)
MaxInFlight == 2        \* click handlers awaiting a response at the same time
MaxPending == 2         \* store requests of one kind awaiting their response
MaxSelectPending == 1   \* the same in SpecSelect
MaxMapClicks == 2       \* HUC6 clicks that start a request in SpecMap
MaxCodeLen == 4         \* characters of a HUC code handed to normalizeHucCode
MaxIdsArg == 2          \* length of a gauge id list handed to a store function

(***************************************************************************)
(* Sequence helpers.                                                       *)
(***************************************************************************)
SeqsUpTo(S, n) == UNION {[1..k -> S] : k \in 0..n}

Range(s) == {s[i] : i \in 1..Len(s)}

\* [...new Set(xs)]: first occurrences, in order
RECURSIVE Dedup(_)
Dedup(s) ==
    IF s = <<>> THEN <<>>
    ELSE LET init == Dedup(SubSeq(s, 1, Len(s) - 1))
             x    == s[Len(s)]
         IN  IF x \in Range(init) THEN init ELSE Append(init, x)

(***************************************************************************)
(* Geometry values.  Coordinates are integers; a point is <<x, y>>, a ring *)
(* a sequence of points, a polygon a sequence of rings.  A geometry object *)
(* records which of its properties exist: type ("" when it has none),      *)
(* coordinates, rings.                                                     *)
(***************************************************************************)
Rect(x0, y0, x1, y1) == <<<<x0, y0>>, <<x1, y0>>, <<x1, y1>>, <<x0, y1>>, <<x0, y0>>>>

RingOuter == Rect(0, 0, 6, 6)
RingHoleA == Rect(1, 1, 4, 4)
RingHoleB == Rect(2, 2, 5, 5)                       \* overlaps RingHoleA
RingFar   == Rect(5, 5, 8, 8)                       \* reaches outside RingOuter
RingTri   == <<<<0, 0>>, <<6, 0>>, <<0, 6>>, <<0, 0>>>>

GeoRings == {RingOuter, RingHoleA, RingHoleB, RingFar, RingTri}

NullGeometry == [isNull |-> TRUE, type |-> "", coordinates |-> <<>>,
                 hasRings |-> FALSE, rings |-> <<>>]

GeoJsonGeometry(t, coords) ==
    [isNull |-> FALSE, type |-> t, coordinates |-> coords,
     hasRings |-> FALSE, rings |-> <<>>]

\* an object that carries a rings array (Esri JSON has no type property)
RingsGeometry(t, rs) ==
    [isNull |-> FALSE, type |-> t, coordinates |-> <<>>,
     hasRings |-> TRUE, rings |-> rs]

(***************************************************************************)
(* isPointInRing: ray casting.  The edge (i, j) is crossed when            *)
(*   (yi > py) # (yj > py)  and  px < (xj - xi) * (py - yi) / (yj - yi) + xi *)
(* The first conjunct implies yj # yi, so "|| 1e-12" never applies when    *)
(* the quotient decides; on integer coordinates the comparison is exact    *)
(* and is cross-multiplied here.                                           *)
(***************************************************************************)
EdgeIntersects(px, py, pi, pj) ==
    LET xi == pi[1]
        yi == pi[2]
        xj == pj[1]
        yj == pj[2]
        d  == yj - yi
        n  == (xj - xi) * (py - yi)
    IN  /\ (yi > py) # (yj > py)
        /\ IF d > 0 THEN (px - xi) * d < n ELSE (px - xi) * d > n

RECURSIVE RingLoop(_, _, _, _)
RingLoop(point, ring, i, inside) ==
    IF i > Len(ring) THEN inside
    ELSE LET j == IF i = 1 THEN Len(ring) ELSE i - 1
         IN  RingLoop(point, ring, i + 1,
                      IF EdgeIntersects(point[1], point[2], ring[i], ring[j])
                      THEN ~inside ELSE inside)

isPointInRing(point, ring) == RingLoop(point, ring, 1, FALSE)

\* faulty variant of pointInPolygonRings: the rings after the first are not looked at
pointInPolygonRings_OuterOnly(point, polygonRings) ==
    IF Len(polygonRings) = 0 THEN FALSE
    ELSE isPointInRing(point, polygonRings[1])

(***************************************************************************)
(* pointInPolygonRings: inside the first ring and inside none of the rest. *)
(***************************************************************************)
pointInPolygonRings(point, polygonRings) ==
    IF Len(polygonRings) = 0 THEN FALSE
    ELSE IF ~isPointInRing(point, polygonRings[1]) THEN FALSE
    ELSE \A i \in 2..Len(polygonRings) : ~isPointInRing(point, polygonRings[i])

(***************************************************************************)
(* pointInGeometry                                                         *)
(***************************************************************************)
pointInGeometry(pointCoords, geometry) ==
    IF geometry.isNull \/ geometry.type = "" THEN FALSE
    ELSE IF geometry.type = "Polygon"
         THEN pointInPolygonRings(pointCoords, geometry.coordinates)
    ELSE IF geometry.type = "MultiPolygon"
         THEN \E k \in 1..Len(geometry.coordinates) :
                  pointInPolygonRings(pointCoords, geometry.coordinates[k])
    ELSE IF geometry.hasRings
         THEN pointInPolygonRings(pointCoords, geometry.rings)
    ELSE FALSE

(***************************************************************************)
(* Leaflet bounds of a polygon layer: the box around every vertex of every *)
(* ring; layers of other geometry types have no getBounds.                 *)
(***************************************************************************)
GeometryPoints(geometry) ==
    IF geometry.type = "Polygon"
    THEN UNION {Range(geometry.coordinates[r]) : r \in 1..Len(geometry.coordinates)}
    ELSE IF geometry.type = "MultiPolygon"
    THEN UNION {UNION {Range(geometry.coordinates[k][r]) :
                         r \in 1..Len(geometry.coordinates[k])} :
                  k \in 1..Len(geometry.coordinates)}
    ELSE {}

Min(S) == CHOOSE x \in S : \A y \in S : x <= y

Max(S) == CHOOSE x \in S : \A y \in S : x >= y

HasBounds(geometry) == GeometryPoints(geometry) # {}

\* bounds.contains(L.latLng(Number(coords[1]), Number(coords[0])))
BoundsContains(geometry, coords) ==
    LET pts == GeometryPoints(geometry)
        xs  == {p[1] : p \in pts}
        ys  == {p[2] : p \in pts}
    IN  /\ coords[2] >= Min(ys)
        /\ coords[2] <= Max(ys)
        /\ coords[1] >= Min(xs)
        /\ coords[1] <= Max(xs)

(***************************************************************************)
(* Gauge collections.  A gauge feature has geometry.coordinates (hasCoords *)
(* is Array.isArray(coords) && coords.length >= 2) and properties.STREAM_ID*)
(* ("" stands for a missing or falsy id).  NoGauges is gaugesGeoJson=null. *)
(***************************************************************************)
NoGauges == [isNull |-> TRUE, features |-> <<>>]

GaugeCollection(fs) == [isNull |-> FALSE, features |-> fs]

GaugeFeature(c, id) == [hasCoords |-> TRUE, coords |-> c, id |-> id]

GaugeInside(feature, geometry) ==
    \/ pointInGeometry(feature.coords, geometry)
    \/ (IF HasBounds(geometry) THEN BoundsContains(geometry, feature.coords) ELSE FALSE)

getGaugeIdsInLayer(gauges, geometry) ==
    IF gauges.isNull \/ Len(gauges.features) = 0 THEN <<>>
    ELSE LET keep(f) == f.hasCoords /\ f.id # "" /\ GaugeInside(f, geometry)
         IN  Dedup([i \in 1..Len(SelectSeq(gauges.features, keep)) |->
                        SelectSeq(gauges.features, keep)[i].id])

(***************************************************************************)
(* HUC codes and feature properties.  A string is a sequence of one-       *)
(* character strings; a properties object is the sequence of its           *)
(* [key, value] entries in Object.keys order.                              *)
(***************************************************************************)
Digits == {"0", "1", "2", "3", "4", "5", "6", "7", "8", "9"}

NA == <<"N", "/", "A">>

IsDigit(ch) == ch \in Digits

\* the argument null or undefined
NullCode == <<"null">>

\* faulty variant of normalizeHucCode: the code is returned as it came
normalizeHucCode_Raw(code) == code

\* if (code === null || code === undefined) return ''
\* return String(code).replace(/\D/g, '')
normalizeHucCode(code) ==
    IF code = NullCode THEN <<>> ELSE SelectSeq(code, IsDigit)

\* no HUC code function is applied
NoCodeCall == [op |-> "none", a |-> <<>>, b |-> <<>>, w |-> "", stored |-> FALSE,
               done |-> FALSE, norm |-> <<>>, again |-> <<>>, same |-> FALSE]

StartsWith(str, prefix) ==
    /\ Len(prefix) <= Len(str)
    /\ SubSeq(str, 1, Len(prefix)) = prefix

Prop(k, v) == [key |-> k, value |-> v]

\* properties?.[key] is truthy
HasTruthy(properties, k) ==
    \E i \in 1..Len(properties) : properties[i].key = k /\ properties[i].value # <<>>

PropValue(properties, k) ==
    properties[CHOOSE i \in 1..Len(properties) : properties[i].key = k].value

CodeCandidates(level) ==
    IF level = 6
    THEN <<"HUC6", "HUC_6", "HU_6", "HUC_CODE", "huc", "huc_code", "code">>
    ELSE <<"HUC10", "HUC_10", "HU_10", "HUC_CODE", "huc", "huc_code", "code">>

\* /huc|hu_?\d|code/i.test(key), on the keys the model's features carry
MatchesCodePattern(k) ==
    k \in {"HUC6", "HUC_6", "HU_6", "HUC10", "HUC_10", "HU_10", "HUC_CODE", "huc",
           "huc_code", "code", "huc10", "HUC", "Huc_Id", "HU_10_NAME"}

\* the code half of extractWatershedMetadata (the name only feeds the popup)
extractWatershedMetadata(properties, level) ==
    LET cands == CodeCandidates(level)
        hits  == {i \in 1..Len(cands) : HasTruthy(properties, cands[i])}
        fuzzy == {i \in 1..Len(properties) : MatchesCodePattern(properties[i].key)}
    IN  [code |-> IF hits # {} THEN PropValue(properties, cands[Min(hits)])
                  ELSE IF fuzzy # {} THEN properties[Min(fuzzy)].value
                  ELSE NA]

(***************************************************************************)
(* The data the remote services hold.                                      *)
(*   HUC6 regions (features of the HUC6 feature layer): RA carries a code  *)
(*   with a separator (digits 12), RC another code, RN no code attribute,  *)
(*   RG no geometry.                                                       *)
(*   HUC10 features (the HUC10 service): W1, W2 nested in code 12, W3 a    *)
(*   neighbour, W4 without any code attribute.                             *)
(***************************************************************************)
Huc6Ids == {"RA", "RC", "RN", "RG"}

Huc6Feature(r) ==
    CASE r = "RA" -> [properties |-> <<Prop("NAME", <<"a">>), Prop("HUC6", <<"1", "-", "2">>)>>,
                      hasGeometry |-> TRUE, intersecting |-> <<"W1", "W2", "W3">>]
      [] r = "RC" -> [properties |-> <<Prop("Huc_Id", <<"3">>)>>,
                      hasGeometry |-> TRUE, intersecting |-> <<"W3", "W4">>]
      [] r = "RN" -> [properties |-> <<Prop("NAME", <<"n">>)>>,
                      hasGeometry |-> TRUE, intersecting |-> <<"W3", "W4">>]
      [] r = "RG" -> [properties |-> <<Prop("HUC6", <<"1", "2">>)>>,
                      hasGeometry |-> FALSE, intersecting |-> <<>>]

Huc10Ids == <<"W1", "W2", "W3", "W4">>

Huc10Feature(w) ==
    CASE w = "W1" -> [properties |-> <<Prop("HUC10", <<"1", "2", "1">>)>>,
                      geometry |-> GeoJsonGeometry("Polygon", <<RingTri>>)]
      [] w = "W2" -> [properties |-> <<Prop("HUC10", <<"1", "2", "2">>)>>,
                      geometry |-> GeoJsonGeometry("Polygon", <<RingOuter, RingHoleA>>)]
      [] w = "W3" -> [properties |-> <<Prop("HUC10", <<"1", "3", "1">>)>>,
                      geometry |-> GeoJsonGeometry("Polygon", <<RingFar>>)]
      [] w = "W4" -> [properties |-> <<Prop("NAME", <<"w">>)>>,
                      geometry |-> GeoJsonGeometry("Polygon", <<RingHoleB>>)]

\* attribute fields of the HUC10 service; a where-clause on another field is rejected
ServiceFields == {"HUC10", "huc_code"}

\* the features a where-query  field LIKE 'code%'  matches
WhereMatches(huc6Code) ==
    SelectSeq(Huc10Ids,
              LAMBDA w : /\ HasTruthy(Huc10Feature(w).properties, "HUC10")
                         /\ StartsWith(PropValue(Huc10Feature(w).properties, "HUC10"),
                                       huc6Code))

\* what a settled where-query can deliver: "error", or a feature collection
WhereOutcomes(field, huc6Code) ==
    IF field \in ServiceFields
    THEN {[error |-> TRUE, features |-> <<>>], [error |-> FALSE, features |-> <<>>],
          [error |-> FALSE, features |-> WhereMatches(huc6Code)]}
    ELSE {[error |-> TRUE, features |-> <<>>]}

IntersectsOutcomes(region) ==
    {[error |-> TRUE, features |-> <<>>],
     [error |-> FALSE, features |-> Huc6Feature(region).intersecting]}

\* every outcome some query of the model can have
QueryOutcomes ==
    UNION {IntersectsOutcomes(r) : r \in Huc6Ids}
    \cup UNION {WhereOutcomes(f, normalizeHucCode(
                      extractWatershedMetadata(Huc6Feature(r).properties, 6).code)) :
                  f \in ServiceFields, r \in Huc6Ids}

\* history: op, the request id, the normalized code of the call, whether the cache
\* answered, whether queryHuc10ByHuc6 returned (resolved) and what (result), what the
\* settled query delivered (got), whether the handler went on to clearLayers
\* (applied), whether a later click had started a request (superseded); for a map
\* click that selects: the code or gauge id clicked (norm, result); whether the step
\* displayed the 'Watershed Query Error' alert (alert); for a store call: the message
\* of the error it raised in this step, "" for none (error), whether the call that
\* ended is login() (login), whether the step sent a download request (sent), how
\* the endpoint answered (kind)
NoStep == [op |-> "none", rid |-> 0, norm |-> <<>>, hit |-> FALSE, resolved |-> FALSE,
           result |-> <<>>, got |-> <<>>, applied |-> FALSE, superseded |-> FALSE,
           before |-> [gauges |-> <<>>, codes |-> <<>>], alert |-> FALSE,
           error |-> "", login |-> FALSE, sent |-> FALSE, kind |-> ""]

\* history of a selection step: the selection it found
Before == [gauges |-> selectedGaugeIds, codes |-> selectedDomainCodes]

(***************************************************************************)
(* syncHuc10SelectionStyles: the features of the layer that get the        *)
(* selected style; every other feature gets the plain style.               *)
(***************************************************************************)
syncHuc10SelectionStyles(layer, by, codes) ==
    LET selectedCodes == {normalizeHucCode(codes[i]) : i \in 1..Len(codes)}
        isDomainMode  == by = "domain"
        codeOf(w)     == normalizeHucCode(
                             extractWatershedMetadata(Huc10Feature(w).properties, 10).code)
    IN  {w \in Range(layer) : isDomainMode /\ codeOf(w) # <<>> /\ codeOf(w) \in selectedCodes}

\* the watchers on [selectionBy, selectionType] and on selectedDomainCodes have run
\* after a store handler that assigned one of them (no store handler touches the layer)
WatchersRun ==
    huc10Highlighted' =
        syncHuc10SelectionStyles(huc10Layer, selectionBy', selectedDomainCodes')

(***************************************************************************)
(* The streams store: selection state.                                     *)
(* An object with string keys lists its integer-like keys first, in        *)
(* ascending order, then the others in insertion order; the map is kept as *)
(* the sequence of its entries in that order.                              *)
(***************************************************************************)
DigitValue(ch) ==
    CASE ch = "0" -> 0 [] ch = "1" -> 1 [] ch = "2" -> 2 [] ch = "3" -> 3 [] ch = "4" -> 4
      [] ch = "5" -> 5 [] ch = "6" -> 6 [] ch = "7" -> 7 [] ch = "8" -> 8 [] ch = "9" -> 9

RECURSIVE NumericValue(_)
NumericValue(str) ==
    IF str = <<>> THEN 0
    ELSE 10 * NumericValue(SubSeq(str, 1, Len(str) - 1)) + DigitValue(str[Len(str)])

\* a canonical array index: digits only, no leading zero (the model's codes are short)
IsIntegerKey(k) ==
    /\ k # <<>>
    /\ \A i \in 1..Len(k) : IsDigit(k[i])
    /\ (Len(k) = 1 \/ k[1] # "0")

Entry(k, v) == [key |-> k, value |-> v]

ObjectKeys(map) == [i \in 1..Len(map) |-> map[i].key]

ObjectValues(map) == [i \in 1..Len(map) |-> map[i].value]

ObjectHas(map, k) == \E i \in 1..Len(map) : map[i].key = k

\* delete nextMap[k]
ObjectDelete(map, k) == SelectSeq(map, LAMBDA e : e.key # k)

\* nextMap[k] = v for a key the object does not have
ObjectAdd(map, k, v) ==
    IF IsIntegerKey(k)
    THEN LET before(e) == IsIntegerKey(e.key) /\ NumericValue(e.key) < NumericValue(k)
         IN  SelectSeq(map, before) \o <<Entry(k, v)>>
                 \o SelectSeq(map, LAMBDA e : ~before(e))
    ELSE Append(map, Entry(k, v))

RECURSIVE Flat(_)
Flat(lists) == IF lists = <<>> THEN <<>> ELSE Head(lists) \o Flat(Tail(lists))

\* .filter(Boolean) on ids: "" is the falsy id
Truthy(ids) == SelectSeq(ids, LAMBDA id : id # "")

\* faulty variant of toggleGaugeSelection: Multiple never removes
toggleGaugeSelection_AppendOnly(ids, type, gaugeId) ==
    IF gaugeId = "" THEN ids
    ELSE IF type = "Single" THEN <<gaugeId>>
    ELSE Append(ids, gaugeId)

\* faulty variant of toggleGaugeSelection: a falsy id is treated like any id
toggleGaugeSelection_NoGuard(ids, type, gaugeId) ==
    IF type = "Single" THEN <<gaugeId>>
    ELSE IF gaugeId \in Range(ids) THEN SelectSeq(ids, LAMBDA id : id # gaugeId)
    ELSE Append(ids, gaugeId)

\* faulty variant of toggleGaugeSelection: Single toggles like Multiple
toggleGaugeSelection_NoSingle(ids, type, gaugeId) ==
    IF gaugeId = "" THEN ids
    ELSE IF gaugeId \in Range(ids) THEN SelectSeq(ids, LAMBDA id : id # gaugeId)
    ELSE Append(ids, gaugeId)

\* toggleGaugeSelection: the next selectedGaugeIds
toggleGaugeSelection(ids, type, gaugeId) ==
    IF gaugeId = "" THEN ids
    ELSE IF type = "Single" THEN <<gaugeId>>
    ELSE IF gaugeId \in Range(ids) THEN SelectSeq(ids, LAMBDA id : id # gaugeId)
    ELSE Append(ids, gaugeId)

\* faulty variant of toggleDomainMap: Multiple never deletes a key
toggleDomainMap_NeverDelete(map, type, domainCode, gaugeIdsForDomain) ==
    LET nextGaugeIds == Truthy(Dedup(gaugeIdsForDomain))
    IN  IF type = "Single" THEN <<Entry(domainCode, nextGaugeIds)>>
        ELSE IF ObjectHas(map, domainCode) THEN map
        ELSE ObjectAdd(map, domainCode, nextGaugeIds)

\* faulty variant of toggleDomainMap: Single toggles like Multiple
toggleDomainMap_AlwaysToggle(map, type, domainCode, gaugeIdsForDomain) ==
    LET nextGaugeIds == Truthy(Dedup(gaugeIdsForDomain))
    IN  IF ObjectHas(map, domainCode) THEN ObjectDelete(map, domainCode)
        ELSE ObjectAdd(map, domainCode, nextGaugeIds)

\* toggleDomainSelection: the next selectedDomainGaugeMap
toggleDomainMap(map, type, domainCode, gaugeIdsForDomain) ==
    LET nextGaugeIds == Truthy(Dedup(gaugeIdsForDomain))
    IN  IF type = "Single" THEN <<Entry(domainCode, nextGaugeIds)>>
        ELSE IF ObjectHas(map, domainCode) THEN ObjectDelete(map, domainCode)
        ELSE ObjectAdd(map, domainCode, nextGaugeIds)

\* faulty variant of toggleDomainGaugeIds: Multiple keeps the ids of every list as they come
toggleDomainGaugeIds_NoDedup(nextMap, type, gaugeIdsForDomain) ==
    IF type = "Single" THEN Truthy(Dedup(gaugeIdsForDomain))
    ELSE Truthy(Flat(ObjectValues(nextMap)))

\* toggleDomainSelection: the next selectedGaugeIds, given the next map
toggleDomainGaugeIds(nextMap, type, gaugeIdsForDomain) ==
    IF type = "Single" THEN Truthy(Dedup(gaugeIdsForDomain))
    ELSE Dedup(Truthy(Flat(ObjectValues(nextMap))))

\* the gauge collection the gauges endpoint delivers
StoreGauges ==
    GaugeCollection(<<GaugeFeature(<<1, 2>>, "g1"), GaugeFeature(<<5, 5>>, "g2"),
                      GaugeFeature(<<7, 7>>, "g3"), GaugeFeature(<<3, 3>>, "")>>)

\* no store call awaits anything; the four loading flags are false
NothingPending ==
    [login |-> "idle", children |-> {}, options |-> 0, gauges |-> 0, logout |-> 0,
     download |-> 0, loadingLogin |-> FALSE, loadingOptions |-> FALSE,
     loadingGauges |-> FALSE, loadingDownload |-> FALSE]

InitStore ==
    /\ sessionToken = ""
    /\ sessionExpiresAt = "null"
    /\ gaugesGeoJson = NoGauges
    /\ selectedGaugeIds = <<>>
    /\ selectedDomainCodes = <<>>
    /\ selectedDomainGaugeMap = <<>>
    /\ selectionBy = "gauge"
    /\ selectionType = "Single"
    /\ pending = NothingPending

\* faulty variant of clearSelections: the domain selection is kept
clearSelections_GaugesOnly ==
    /\ selectedGaugeIds' = <<>>
    /\ UNCHANGED <<selectedDomainCodes, selectedDomainGaugeMap>>

\* clearSelections(): clearSelectedGauges(); clearSelectedDomains()
clearSelections ==
    /\ selectedGaugeIds' = <<>>
    /\ selectedDomainCodes' = <<>>
    /\ selectedDomainGaugeMap' = <<>>

\* faulty variant of clearSession: the gauges stay loaded
clearSession_KeepGauges ==
    /\ sessionToken' = ""
    /\ sessionExpiresAt' = "null"
    /\ gaugesGeoJson' = gaugesGeoJson
    /\ clearSelections

clearSession ==
    /\ sessionToken' = ""
    /\ sessionExpiresAt' = "null"
    /\ gaugesGeoJson' = NoGauges
    /\ clearSelections

isSessionExpired == sessionExpiresAt = "expired"

mapFrame == UNCHANGED <<queryVars, geomVars>>

stylesKept == UNCHANGED huc10Highlighted

\* the sidebar's controls exist while a session token is held
SignedIn == sessionToken # ""

\* "Select By" radio group: streamsStore.setSelectionBy($event)
SetSelectionBy(mode) ==
    /\ SignedIn
    /\ mode # selectionBy
    /\ selectionBy' = mode
    /\ clearSelections
    /\ last' = [NoStep EXCEPT !.op = "setSelectionBy", !.before = Before]
    /\ UNCHANGED <<sessionToken, sessionExpiresAt, gaugesGeoJson, selectionType, pending>>
    /\ WatchersRun
    /\ mapFrame

\* "Selection Type" radio group: streamsStore.setSelectionType($event)
SetSelectionType(mode) ==
    /\ SignedIn
    /\ mode # selectionType
    /\ selectionType' = mode
    /\ clearSelections
    /\ last' = [NoStep EXCEPT !.op = "setSelectionType", !.before = Before]
    /\ UNCHANGED <<sessionToken, sessionExpiresAt, gaugesGeoJson, selectionBy, pending>>
    /\ WatchersRun
    /\ mapFrame

\* "Reset Options": setSelectionBy('gauge'); setSelectionType('Single')
ResetOptions ==
    /\ SignedIn
    /\ selectionBy' = "gauge"
    /\ selectionType' = "Single"
    /\ clearSelections
    /\ last' = [NoStep EXCEPT !.op = "resetOptions", !.before = Before]
    /\ UNCHANGED <<sessionToken, sessionExpiresAt, gaugesGeoJson, pending>>
    /\ WatchersRun
    /\ mapFrame

\* "Clear Selection": streamsStore.clearSelections()
ClearSelectionClick ==
    /\ SignedIn
    /\ clearSelections
    /\ last' = [NoStep EXCEPT !.op = "clearSelections", !.before = Before]
    /\ UNCHANGED <<sessionToken, sessionExpiresAt, gaugesGeoJson, selectionBy,
                   selectionType, pending>>
    /\ WatchersRun
    /\ mapFrame

(***************************************************************************)
(* Session: login() with the two fetches it awaits, logout().  The options *)
(* themselves hold no state a claim reads and are left out.  login()       *)
(* awaits Promise.all of fetchOptions() and fetchGauges(): it raises at    *)
(* the first of them to reject and returns when both are fulfilled; a      *)
(* fetch it no longer awaits stays in flight.                              *)
(***************************************************************************)
\* error messages of the store
ErrSignIn == "Please sign in before continuing."
ErrHasExpired == "Your STREAMS session has expired. Please sign in again."
ErrExpired == "Your STREAMS session expired. Please sign in again."
ErrInvalidToken == "Invalid or expired STREAMS session token."
ErrNoGauge == "Select at least one gauge before downloading."

\* "Sign In": the form shows without a token, the button is inert while loading.login
LoginStart ==
    /\ ~SignedIn
    /\ pending.login = "idle"
    /\ pending' = [pending EXCEPT !.login = "fetch", !.loadingLogin = TRUE]
    /\ last' = [NoStep EXCEPT !.op = "loginStart"]
    /\ UNCHANGED <<sessionToken, sessionExpiresAt, gaugesGeoJson, selectionVars,
                   selectionBy, selectionType>>
    /\ stylesKept
    /\ mapFrame

\* login() stops awaiting: one of its fetches rejected
LoginChildRejected(p) ==
    [p EXCEPT !.login = "idle", !.children = {}, !.loadingLogin = FALSE]

\* one of the fetches login() awaits is fulfilled; with both, login() returns
LoginChildFulfilled(p, child) ==
    [p EXCEPT !.children = @ \ {child},
              !.login = IF p.children \ {child} = {} THEN "idle" ELSE "children",
              !.loadingLogin = p.children \ {child} # {}]

\* the login endpoint answers; on success fetchOptions() and fetchGauges() run up to
\* their fetch
LoginResponse(ok, expiresAt) ==
    /\ pending.login = "fetch"
    /\ UNCHANGED <<selectionBy, selectionType>>
    /\ IF ~ok
       THEN /\ pending' = [pending EXCEPT !.login = "idle", !.loadingLogin = FALSE]
            /\ last' = [NoStep EXCEPT !.op = "loginResponse", !.login = TRUE,
                                      !.error = "Login failed"]
            /\ UNCHANGED <<sessionToken, sessionExpiresAt, gaugesGeoJson, selectionVars>>
            /\ stylesKept
       ELSE IF expiresAt = "expired"
       THEN \* fetchOptions is sent; fetchGauges: ensureValidSession clears the session
            \* and throws
            /\ pending.options < MaxPending
            /\ clearSession
            /\ WatchersRun
            /\ pending' = [pending EXCEPT !.login = "idle", !.loadingLogin = FALSE,
                                          !.options = @ + 1, !.loadingOptions = TRUE]
            /\ last' = [NoStep EXCEPT !.op = "loginResponse", !.login = TRUE,
                                      !.error = ErrHasExpired]
       ELSE /\ pending.options < MaxPending
            /\ pending.gauges < MaxPending
            /\ sessionToken' = "tok"
            /\ sessionExpiresAt' = expiresAt
            /\ pending' = [pending EXCEPT !.login = "children",
                                          !.children = {"options", "gauges"},
                                          !.options = @ + 1, !.loadingOptions = TRUE,
                                          !.gauges = @ + 1, !.loadingGauges = TRUE]
            /\ last' = [NoStep EXCEPT !.op = "loginResponse"]
            /\ UNCHANGED <<gaugesGeoJson, selectionVars>>
            /\ stylesKept
    /\ mapFrame

\* the options endpoint answers a fetchOptions(): the one login() awaits (awaited), or
\* one whose login() has already raised; finally loading.options = false
OptionsResponse(ok, awaited) ==
    /\ IF awaited
       THEN pending.login = "children" /\ "options" \in pending.children
       ELSE pending.options > (IF "options" \in pending.children THEN 1 ELSE 0)
    /\ pending' =
          LET p == [pending EXCEPT !.options = @ - 1, !.loadingOptions = FALSE]
          IN  IF ~awaited THEN p
              ELSE IF ok THEN LoginChildFulfilled(p, "options")
              ELSE LoginChildRejected(p)
    /\ last' = [NoStep EXCEPT !.op = "optionsResponse",
                              !.kind = IF ok THEN "ok" ELSE "failed",
                              !.login = awaited /\ pending'.login = "idle",
                              !.error = IF ok THEN "" ELSE "Failed to load STREAMS options"]
    /\ UNCHANGED <<sessionToken, sessionExpiresAt, gaugesGeoJson, selectionVars,
                   selectionBy, selectionType>>
    /\ stylesKept
    /\ mapFrame

\* the gauges endpoint answers a fetchGauges(): the one login() awaits (awaited), or
\* one whose login() has already raised; finally loading.gauges = false
GaugesResponse(kind, awaited) ==
    /\ IF awaited
       THEN pending.login = "children" /\ "gauges" \in pending.children
       ELSE pending.gauges > (IF "gauges" \in pending.children THEN 1 ELSE 0)
    /\ pending' =
          LET p == [pending EXCEPT !.gauges = @ - 1, !.loadingGauges = FALSE]
          IN  IF ~awaited THEN p
              ELSE IF kind = "ok" THEN LoginChildFulfilled(p, "gauges")
              ELSE LoginChildRejected(p)
    /\ UNCHANGED <<selectionBy, selectionType>>
    /\ last' = [NoStep EXCEPT !.op = "gaugesResponse", !.kind = kind,
                              !.login = awaited /\ pending'.login = "idle",
                              !.error = CASE kind = "ok" -> ""
                                          [] kind = "invalidToken" -> ErrExpired
                                          [] kind = "failed" -> "Failed to load gauge data"]
    /\ CASE kind = "ok" ->
              /\ gaugesGeoJson' = StoreGauges
              /\ UNCHANGED <<sessionToken, sessionExpiresAt, selectionVars>>
              /\ stylesKept
         [] kind = "invalidToken" -> clearSession /\ WatchersRun
         [] kind = "failed" ->
              /\ UNCHANGED <<sessionToken, sessionExpiresAt, gaugesGeoJson, selectionVars>>
              /\ stylesKept
    /\ mapFrame

\* "Sign Out": logout() up to its fetch
LogoutStart ==
    /\ SignedIn
    /\ pending.logout < MaxPending
    /\ pending' = [pending EXCEPT !.logout = @ + 1]
    /\ last' = [NoStep EXCEPT !.op = "logoutStart"]
    /\ UNCHANGED <<sessionToken, sessionExpiresAt, gaugesGeoJson, selectionVars,
                   selectionBy, selectionType>>
    /\ stylesKept
    /\ mapFrame

\* the logout fetch settles, fulfilled (ok) or rejected: finally clearSession()
LogoutSettles(ok) ==
    /\ pending.logout > 0
    /\ pending' = [pending EXCEPT !.logout = @ - 1]
    /\ clearSession
    /\ UNCHANGED <<selectionBy, selectionType>>
    /\ last' = [NoStep EXCEPT !.op = "logoutSettles",
                              !.kind = IF ok THEN "ok" ELSE "failed", !.before = Before]
    /\ WatchersRun
    /\ mapFrame

\* time passes the session's expiry
ClockPassesExpiry ==
    /\ sessionExpiresAt = "valid"
    /\ sessionExpiresAt' = "expired"
    /\ last' = [NoStep EXCEPT !.op = "clock"]
    /\ UNCHANGED <<sessionToken, gaugesGeoJson, selectionVars, selectionBy,
                   selectionType, pending>>
    /\ stylesKept
    /\ mapFrame

(***************************************************************************)
(* The HUC10-by-HUC6 resolver and the HUC6 click handler.                  *)
(* An await on a remote query ends the step; everything up to the next     *)
(* remote query (or the end of the handler) runs in the step of the        *)
(* response that resumes it.  A cache hit resumes in a microtask, before   *)
(* any other event, so the click that hits the cache runs to its end.      *)
(***************************************************************************)
FieldCandidates == <<"HUC10", "HUC_10", "HUC", "huc10", "huc_code", "HUC_CODE", "HU_10">>

\* faulty variant of orderedFieldCandidates: the detected field is not moved to the front
orderedFieldCandidates_Fixed(detected) == FieldCandidates

orderedFieldCandidates(detected) ==
    IF detected # ""
    THEN <<detected>> \o SelectSeq(FieldCandidates, LAMBDA f : f # detected)
    ELSE FieldCandidates

isStreamRoute == routeName = "stream"

\* faulty variant of CacheHit: the cache is never consulted
CacheHit_Never(normalizedCode) == FALSE

\* the cache lookup that opens queryHuc10ByHuc6
CacheHit(normalizedCode) ==
    normalizedCode # <<>> /\ normalizedCode \in DOMAIN huc10QueryCache

\* faulty variant of CacheSet: an entry already present is kept
CacheSet_KeepOld(cache, normalizedCode, collection) ==
    IF normalizedCode \in DOMAIN cache THEN cache
    ELSE [k \in DOMAIN cache \cup {normalizedCode} |->
             IF k = normalizedCode THEN collection ELSE cache[k]]

\* faulty variant of CacheSet: the resolved collection is not stored
CacheSet_Drop(cache, normalizedCode, collection) == cache

\* huc10QueryCache.value.set(normalizedCode, collection)
CacheSet(cache, normalizedCode, collection) ==
    [k \in DOMAIN cache \cup {normalizedCode} |->
        IF k = normalizedCode THEN collection ELSE cache[k]]

\* faulty variant of CacheAfterRejection: an empty collection is stored
CacheAfterRejection_StoreEmpty(cache, normalizedCode) ==
    IF normalizedCode # <<>> THEN CacheSet(cache, normalizedCode, <<>>) ELSE cache

\* the cache when runHuc10IntersectsQuery rejects: the await throws, the set is skipped
CacheAfterRejection(cache, normalizedCode) == cache

\* faulty variant of IsStale: the route is not looked at
IsStale_IdOnly(requestId, currentId) == requestId # currentId

\* faulty variant of IsStale: the request id is not compared
IsStale_RouteOnly(requestId, currentId) == ~isStreamRoute

\* requestId !== huc10QueryRequestId.value || !isStreamRoute(), with the counter's
\* value at the time the handler resumes
IsStale(requestId, currentId) == requestId # currentId \/ ~isStreamRoute

\* faulty variant of StrictlyNested: nothing is dropped
StrictlyNested_KeepAll(features, code) == features

\* the filter applied to featureCollection.features
StrictlyNested(features, code) ==
    SelectSeq(features,
              LAMBDA w :
                  LET huc10 == normalizeHucCode(
                                   extractWatershedMetadata(Huc10Feature(w).properties, 10).code)
                      huc6  == normalizeHucCode(code)
                  IN  IF huc6 = <<>> THEN TRUE ELSE StartsWith(huc10, huc6))

\* huc10Layer.clearLayers(); if (features.length) huc10Layer.addData(strictlyNested)
LayerAfterResponse(features, code) ==
    IF Len(features) > 0 THEN StrictlyNested(features, code) ELSE <<>>

\* the handler after  await queryHuc10ByHuc6(...)  has delivered a collection
LayerAfterAwait(requestId, currentId, features, code) ==
    IF IsStale(requestId, currentId) THEN huc10Layer
    ELSE LayerAfterResponse(features, code)

\* the styles after the same: new features are drawn plain, then, if any came,
\* syncHuc10SelectionStyles()
HighlightAfterAwait(requestId, currentId, features, code) ==
    IF IsStale(requestId, currentId) THEN huc10Highlighted
    ELSE IF Len(features) > 0
         THEN syncHuc10SelectionStyles(StrictlyNested(features, code), selectionBy,
                                       selectedDomainCodes)
    ELSE {}

\* faulty variant of NextQueryAfterMiss: the first miss goes to the intersects query
NextQueryAfterMiss_GiveUp(call) ==
    [call EXCEPT !.phase = "intersects",
                 !.tried = Append(call.tried, call.fields[call.idx])]

\* the query a resolution sends after the where-query on fields[idx] gave nothing
NextQueryAfterMiss(call) ==
    IF call.idx < Len(call.fields)
    THEN [call EXCEPT !.idx = call.idx + 1, !.tried = Append(call.tried, call.fields[call.idx])]
    ELSE [call EXCEPT !.phase = "intersects",
                      !.tried = Append(call.tried, call.fields[call.idx])]

\* faulty variant of FirstQuery: the where-queries are sent for an empty code too
FirstQuery_AlwaysWhere(region, code, normalizedCode) ==
    [region |-> region, code |-> code, normalizedCode |-> normalizedCode,
     fields |-> orderedFieldCandidates(huc10DetectedField), idx |-> 1,
     phase |-> "where", tried |-> <<>>, superseded |-> FALSE]

\* the first query of a resolution that missed the cache
FirstQuery(region, code, normalizedCode) ==
    [region |-> region, code |-> code, normalizedCode |-> normalizedCode,
     fields |-> orderedFieldCandidates(huc10DetectedField), idx |-> 1,
     phase |-> IF normalizedCode # <<>> THEN "where" ELSE "intersects",
     tried |-> <<>>, superseded |-> FALSE]

Without(f, x) == [k \in DOMAIN f \ {x} |-> f[k]]

Supersede(cs) == [k \in DOMAIN cs |-> [cs[k] EXCEPT !.superseded = TRUE]]

\* history: the collections returned for a code so far, and the latest of them
Returned(hist, normalizedCode, collection) ==
    IF normalizedCode = <<>> THEN hist
    ELSE [k \in DOMAIN hist \cup {normalizedCode} |->
             IF k = normalizedCode
             THEN [all    |-> (IF k \in DOMAIN hist THEN hist[k].all ELSE {}) \cup {collection},
                   latest |-> collection]
             ELSE hist[k]]

InitMap ==
    /\ routeName = "stream"
    /\ huc10QueryRequestId = 0
    /\ huc10QueryCache = <<>>
    /\ huc10DetectedField = ""
    /\ huc10Layer = <<>>
    /\ selectedHuc6Layer = "none"
    /\ calls = <<>>
    /\ huc10Highlighted = {}
    /\ queriesIssued = 0
    /\ returned = <<>>
    /\ everDetected = {}

\* faulty variant of NextRequestId: the counter is not incremented
NextRequestId_Reuse(current) == current

\* ++huc10QueryRequestId.value
NextRequestId(current) == current + 1

\* huc6Layer.on('click'): a click on a feature without geometry returns at once
Huc6ClickIgnored(region) ==
    /\ isStreamRoute
    /\ ~Huc6Feature(region).hasGeometry
    /\ last' = [NoStep EXCEPT !.op = "huc6ClickIgnored"]
    /\ UNCHANGED <<queryVars, huc10Highlighted, geomVars, storeVars>>

Huc6Click(region) ==
    LET code      == extractWatershedMetadata(Huc6Feature(region).properties, 6).code
        requestId == NextRequestId(huc10QueryRequestId)
        norm      == normalizeHucCode(code)
    IN  /\ isStreamRoute
        /\ Huc6Feature(region).hasGeometry
        /\ huc10QueryRequestId < MaxClicks
        /\ Cardinality(DOMAIN calls) < MaxInFlight
        /\ huc10QueryRequestId' = requestId
        /\ selectedHuc6Layer' = region
        /\ IF CacheHit(norm)
           THEN /\ huc10Layer' = LayerAfterAwait(requestId, requestId,
                                                 huc10QueryCache[norm], code)
                /\ huc10Highlighted' = HighlightAfterAwait(requestId, requestId,
                                                           huc10QueryCache[norm], code)
                /\ calls' = Supersede(calls)
                /\ queriesIssued' = queriesIssued
                /\ returned' = Returned(returned, norm, huc10QueryCache[norm])
                /\ last' = [NoStep EXCEPT !.op = "huc6Click", !.rid = requestId,
                                          !.norm = norm,
                                          !.hit = TRUE, !.resolved = TRUE,
                                          !.result = huc10QueryCache[norm],
                                          !.applied = ~IsStale(requestId, requestId)]
           ELSE /\ huc10Layer' = huc10Layer
                /\ huc10Highlighted' = huc10Highlighted
                /\ calls' = [k \in DOMAIN calls \cup {requestId} |->
                                IF k = requestId THEN FirstQuery(region, code, norm)
                                ELSE Supersede(calls)[k]]
                /\ queriesIssued' = queriesIssued + 1
                /\ returned' = returned
                /\ last' = [NoStep EXCEPT !.op = "huc6Click", !.rid = requestId,
                                          !.norm = norm]
        /\ UNCHANGED <<routeName, huc10QueryCache, huc10DetectedField, everDetected,
                       geomVars, storeVars>>

\* runHuc10WhereQuery settles
WhereResponse(rid, outcome) ==
    LET call == calls[rid]
    IN  /\ call.phase = "where"
        /\ outcome \in WhereOutcomes(call.fields[call.idx], call.normalizedCode)
        /\ IF ~outcome.error /\ Len(outcome.features) > 0
           THEN /\ huc10DetectedField' = call.fields[call.idx]
                /\ everDetected' = everDetected \cup {call.fields[call.idx]}
                /\ huc10QueryCache' = CacheSet(huc10QueryCache, call.normalizedCode,
                                               outcome.features)
                /\ huc10Layer' = LayerAfterAwait(rid, huc10QueryRequestId,
                                                 outcome.features, call.code)
                /\ huc10Highlighted' = HighlightAfterAwait(rid, huc10QueryRequestId,
                                                           outcome.features, call.code)
                /\ calls' = Without(calls, rid)
                /\ queriesIssued' = queriesIssued
                /\ returned' = Returned(returned, call.normalizedCode, outcome.features)
                /\ last' = [NoStep EXCEPT !.op = "whereResponse", !.rid = rid,
                                          !.norm = call.normalizedCode,
                                          !.resolved = TRUE,
                                          !.result = outcome.features,
                                          !.got = outcome.features,
                                          !.applied = ~IsStale(rid, huc10QueryRequestId),
                                          !.superseded = call.superseded]
           ELSE /\ calls' = [calls EXCEPT ![rid] = NextQueryAfterMiss(call)]
                /\ queriesIssued' = queriesIssued + 1
                /\ last' = [NoStep EXCEPT !.op = "whereResponse", !.rid = rid,
                                          !.norm = call.normalizedCode,
                                          !.superseded = call.superseded]
                /\ UNCHANGED <<huc10DetectedField, everDetected, huc10QueryCache,
                               huc10Layer, huc10Highlighted, returned>>
        /\ UNCHANGED <<routeName, huc10QueryRequestId, selectedHuc6Layer, geomVars, storeVars>>

\* runHuc10IntersectsQuery settles; a rejection reaches the handler's catch
IntersectsResponse(rid, outcome) ==
    LET call == calls[rid]
    IN  /\ call.phase = "intersects"
        /\ outcome \in IntersectsOutcomes(call.region)
        /\ calls' = Without(calls, rid)
        /\ IF outcome.error
           THEN /\ last' = [NoStep EXCEPT !.op = "intersectsResponse", !.rid = rid,
                                          !.norm = call.normalizedCode,
                                          !.superseded = call.superseded,
                                          !.alert = TRUE]
                /\ huc10QueryCache' = CacheAfterRejection(huc10QueryCache,
                                                          call.normalizedCode)
                /\ UNCHANGED <<huc10Layer, huc10Highlighted, returned>>
           ELSE /\ huc10QueryCache' =
                      IF call.normalizedCode # <<>>
                      THEN CacheSet(huc10QueryCache, call.normalizedCode, outcome.features)
                      ELSE huc10QueryCache
                /\ huc10Layer' = LayerAfterAwait(rid, huc10QueryRequestId,
                                                 outcome.features, call.code)
                /\ huc10Highlighted' = HighlightAfterAwait(rid, huc10QueryRequestId,
                                                           outcome.features, call.code)
                /\ returned' = Returned(returned, call.normalizedCode, outcome.features)
                /\ last' = [NoStep EXCEPT !.op = "intersectsResponse", !.rid = rid,
                                          !.norm = call.normalizedCode,
                                          !.resolved = TRUE,
                                          !.result = outcome.features,
                                          !.got = outcome.features,
                                          !.applied = ~IsStale(rid, huc10QueryRequestId),
                                          !.superseded = call.superseded]
        /\ UNCHANGED <<routeName, huc10QueryRequestId, huc10DetectedField, everDetected,
                       selectedHuc6Layer, queriesIssued, geomVars, storeVars>>

\* watch(route.fullPath): applyRouteMode, and off the stream route clearLayers
RouteChange(to) ==
    /\ to # routeName
    /\ routeName' = to
    /\ huc10Layer' = IF to # "stream" THEN <<>> ELSE huc10Layer
    /\ huc10Highlighted' = IF to # "stream" THEN {} ELSE huc10Highlighted
    /\ last' = [NoStep EXCEPT !.op = "routeChange"]
    /\ UNCHANGED <<huc10QueryRequestId, huc10QueryCache, huc10DetectedField,
                   selectedHuc6Layer, calls, queriesIssued, returned, everDetected,
                   geomVars, storeVars>>

NextQuery ==
    \/ \E region \in Huc6Ids : Huc6ClickIgnored(region)
    \/ \E region \in Huc6Ids : Huc6Click(region)
    \/ \E rid \in DOMAIN calls, outcome \in QueryOutcomes : WhereResponse(rid, outcome)
    \/ \E rid \in DOMAIN calls, outcome \in QueryOutcomes : IntersectsResponse(rid, outcome)
    \/ \E to \in {"stream", "other"} : RouteChange(to)

InitQuery ==
    /\ gOp = "none"
    /\ gPoint = <<0, 0>>
    /\ gGeom = NullGeometry
    /\ gGauges = NoGauges
    /\ gDone = FALSE
    /\ gInside = FALSE
    /\ gIds = <<>>
    /\ codeCall = NoCodeCall
    /\ InitMap
    /\ InitStore
    /\ last = NoStep

SpecQuery == InitQuery /\ [][NextQuery]_vars

(***************************************************************************)
(* SpecGeom: the inputs are drawn by Init, one action applies a function.  *)
(***************************************************************************)
Grid == (0..GridMax) \X (0..GridMax)

\* ring lists handed to pointInPolygonRings
RingLists == SeqsUpTo(GeoRings, MaxRings)

\* polygons as a feature service delivers them: an outer ring, optionally a hole
ServicePolygons == {<<r>> : r \in GeoRings} \cup {<<RingOuter, RingHoleA>>}

GeometryInputs ==
    {NullGeometry, GeoJsonGeometry("", <<>>), GeoJsonGeometry("Point", <<>>)}
    \cup {GeoJsonGeometry("Polygon", p) : p \in ServicePolygons \cup {<<>>}}
    \cup {GeoJsonGeometry("MultiPolygon", m) : m \in SeqsUpTo(ServicePolygons, MaxPolys)}
    \cup {RingsGeometry(t, p) : t \in {"", "polygon"}, p \in ServicePolygons}

LayerGeometries ==
    {GeoJsonGeometry("Polygon", p) : p \in ServicePolygons}
    \cup {GeoJsonGeometry("MultiPolygon", <<p, q>>) : p, q \in ServicePolygons}
    \cup {GeoJsonGeometry("Point", <<>>)}

GaugeFeatureInputs ==
    {GaugeFeature(c, id) : c \in {<<1, 1>>, <<5, 5>>, <<7, 7>>}, id \in {"g1", "g2", ""}}
    \cup {[hasCoords |-> FALSE, coords |-> <<>>, id |-> "g1"]}

GaugeInputs ==
    {NoGauges} \cup {GaugeCollection(fs) : fs \in SeqsUpTo(GaugeFeatureInputs, MaxGaugeFeatures)}

InitGeom ==
    /\ InitMap
    /\ InitStore
    /\ last = NoStep
    /\ gOp \in {"pointInPolygonRings", "pointInGeometry", "getGaugeIdsInLayer"}
    /\ gDone = FALSE
    /\ gInside = FALSE
    /\ gIds = <<>>
    /\ codeCall = NoCodeCall
    /\ \/ /\ gOp = "pointInPolygonRings"
          /\ gPoint \in Grid
          /\ gGeom \in {GeoJsonGeometry("Polygon", p) : p \in RingLists}
          /\ gGauges = NoGauges
       \/ /\ gOp = "pointInGeometry"
          /\ gPoint \in Grid
          /\ gGeom \in GeometryInputs
          /\ gGauges = NoGauges
       \/ /\ gOp = "getGaugeIdsInLayer"
          /\ gPoint = <<0, 0>>
          /\ gGeom \in LayerGeometries
          /\ gGauges \in GaugeInputs

ApplyPointInPolygonRings ==
    /\ gOp = "pointInPolygonRings"
    /\ ~gDone
    /\ gInside' = pointInPolygonRings(gPoint, gGeom.coordinates)
    /\ gDone' = TRUE
    /\ UNCHANGED <<gOp, gPoint, gGeom, gGauges, gIds, codeCall, queryVars, huc10Highlighted,
                   storeVars, last>>

ApplyPointInGeometry ==
    /\ gOp = "pointInGeometry"
    /\ ~gDone
    /\ gInside' = pointInGeometry(gPoint, gGeom)
    /\ gDone' = TRUE
    /\ UNCHANGED <<gOp, gPoint, gGeom, gGauges, gIds, codeCall, queryVars, huc10Highlighted,
                   storeVars, last>>

ApplyGetGaugeIdsInLayer ==
    /\ gOp = "getGaugeIdsInLayer"
    /\ ~gDone
    /\ gIds' = getGaugeIdsInLayer(gGauges, gGeom)
    /\ gDone' = TRUE
    /\ UNCHANGED <<gOp, gPoint, gGeom, gGauges, gInside, codeCall, queryVars,
                   huc10Highlighted,
                   storeVars, last>>

NextGeom ==
    \/ ApplyPointInPolygonRings
    \/ ApplyPointInGeometry
    \/ ApplyGetGaugeIdsInLayer

SpecGeom == InitGeom /\ [][NextGeom]_vars

(***************************************************************************)
(* Selection: the sidebar's controls, the session and the two map click    *)
(* handlers that select, over a HUC10 layer a HUC6 click has filled.       *)
(***************************************************************************)
\* faulty variant of Huc10ClickSelects: the mode is not looked at
Huc10ClickSelects_Always(by) == TRUE

\* huc10 feature click: if (streamsStore.selectionBy === 'domain')
Huc10ClickSelects(by) == by = "domain"

\* gauge marker click: if (streamsStore.selectionBy !== 'gauge') return
GaugeClickSelects(by) == by = "gauge"

\* click on a feature of the HUC10 layer
Huc10Click(w) ==
    LET feature  == Huc10Feature(w)
        code     == extractWatershedMetadata(feature.properties, 10).code
        gaugeIds == getGaugeIdsInLayer(gaugesGeoJson, feature.geometry)
        nextMap  == toggleDomainMap(selectedDomainGaugeMap, selectionType, code, gaugeIds)
    IN  /\ isStreamRoute
        /\ w \in Range(huc10Layer)
        /\ IF Huc10ClickSelects(selectionBy) /\ code # <<>>
           THEN /\ selectedDomainGaugeMap' = nextMap
                /\ selectedDomainCodes' = ObjectKeys(nextMap)
                /\ selectedGaugeIds' = toggleDomainGaugeIds(nextMap, selectionType, gaugeIds)
                /\ huc10Highlighted' = syncHuc10SelectionStyles(huc10Layer, selectionBy,
                                                                 ObjectKeys(nextMap))
           ELSE UNCHANGED <<selectionVars, huc10Highlighted>>
        /\ last' = [NoStep EXCEPT !.op = "huc10Click", !.norm = code, !.result = gaugeIds,
                                  !.before = Before]
        /\ UNCHANGED <<sessionToken, sessionExpiresAt, gaugesGeoJson, selectionBy,
                       selectionType, pending>>
        /\ mapFrame

\* click on the marker of the i-th gauge feature
GaugeClick(i) ==
    /\ isStreamRoute
    /\ ~gaugesGeoJson.isNull
    /\ i \in 1..Len(gaugesGeoJson.features)
    /\ IF GaugeClickSelects(selectionBy)
       THEN /\ selectedGaugeIds' = toggleGaugeSelection(selectedGaugeIds, selectionType,
                                                        gaugesGeoJson.features[i].id)
            /\ UNCHANGED <<selectedDomainCodes, selectedDomainGaugeMap>>
       ELSE UNCHANGED selectionVars
    /\ last' = [NoStep EXCEPT !.op = "gaugeClick",
                              !.result = <<gaugesGeoJson.features[i].id>>,
                              !.before = Before]
    /\ UNCHANGED <<sessionToken, sessionExpiresAt, gaugesGeoJson, selectionBy,
                   selectionType, pending>>
    /\ stylesKept
    /\ mapFrame

SelectionModes == {"gauge", "domain"}

\* the session's requests in SpecSelect: one of a kind in flight
SelectLoginResponse(ok, expiresAt) ==
    /\ ok => pending.options < MaxSelectPending
    /\ (ok /\ expiresAt # "expired") => pending.gauges < MaxSelectPending
    /\ LoginResponse(ok, expiresAt)

SelectLogoutStart ==
    /\ pending.logout < MaxSelectPending
    /\ LogoutStart

SelectionTypes == {"Single", "Multiple"}

NextSelect ==
    \/ \E mode \in SelectionModes : SetSelectionBy(mode)
    \/ \E mode \in SelectionTypes : SetSelectionType(mode)
    \/ ResetOptions
    \/ ClearSelectionClick
    \/ \E w \in Range(Huc10Ids) : Huc10Click(w)
    \/ \E i \in 1..Len(StoreGauges.features) : GaugeClick(i)
    \/ LoginStart
    \/ \E ok \in BOOLEAN, expiresAt \in {"valid", "expired"} : SelectLoginResponse(ok, expiresAt)
    \/ \E ok \in BOOLEAN, awaited \in BOOLEAN : OptionsResponse(ok, awaited)
    \/ \E kind \in {"ok", "invalidToken", "failed"}, awaited \in BOOLEAN :
           GaugesResponse(kind, awaited)
    \/ SelectLogoutStart
    \/ \E ok \in BOOLEAN : LogoutSettles(ok)
    \/ ClockPassesExpiry

\* the map component as HUC6 clicks leave it: untouched; after a click on RA answered
\* by the where-query on HUC10; after a click on RN answered by the intersects query
LoadedMaps ==
    { [requestId |-> 0, cache |-> <<>>, detected |-> "", layer |-> <<>>,
       huc6 |-> "none", issued |-> 0, returned |-> <<>>],
      [requestId |-> 1, cache |-> (<<"1", "2">> :> <<"W1", "W2">>), detected |-> "HUC10",
       layer |-> <<"W1", "W2">>, huc6 |-> "RA", issued |-> 1,
       returned |-> Returned(<<>>, <<"1", "2">>, <<"W1", "W2">>)],
      [requestId |-> 1, cache |-> <<>>, detected |-> "", layer |-> <<"W3", "W4">>,
       huc6 |-> "RN", issued |-> 1, returned |-> <<>>] }

MapIs(m) ==
    /\ routeName = "stream"
    /\ huc10QueryRequestId = m.requestId
    /\ huc10QueryCache = m.cache
    /\ huc10DetectedField = m.detected
    /\ huc10Layer = m.layer
    /\ selectedHuc6Layer = m.huc6
    /\ calls = <<>>
    /\ huc10Highlighted = {}
    /\ queriesIssued = m.issued
    /\ returned = m.returned
    /\ everDetected = IF m.detected = "" THEN {} ELSE {m.detected}

InitSelect ==
    /\ gOp = "none"
    /\ gPoint = <<0, 0>>
    /\ gGeom = NullGeometry
    /\ gGauges = NoGauges
    /\ gDone = FALSE
    /\ gInside = FALSE
    /\ gIds = <<>>
    /\ codeCall = NoCodeCall
    /\ InitStore
    /\ last = NoStep
    /\ \E m \in LoadedMaps : MapIs(m)

SpecSelect == InitSelect /\ [][NextSelect]_vars

(***************************************************************************)
(* The map as a whole: HUC6 clicks, their queries and route changes        *)
(* together with mode changes and HUC10 clicks, in a session that has      *)
(* signed in and loaded its gauges.                                        *)
(***************************************************************************)
\* the regions clicked in SpecMap: one with a code, one without
MapRegions == {"RA", "RN"}

MapHuc6Click(region) ==
    /\ huc10QueryRequestId < MaxMapClicks
    /\ Huc6Click(region)

NextMap ==
    \/ \E region \in Huc6Ids : Huc6ClickIgnored(region)
    \/ \E region \in MapRegions : MapHuc6Click(region)
    \/ \E rid \in DOMAIN calls, outcome \in QueryOutcomes : WhereResponse(rid, outcome)
    \/ \E rid \in DOMAIN calls, outcome \in QueryOutcomes : IntersectsResponse(rid, outcome)
    \/ \E to \in {"stream", "other"} : RouteChange(to)
    \/ \E mode \in SelectionModes : SetSelectionBy(mode)
    \/ \E mode \in SelectionTypes : SetSelectionType(mode)
    \/ ClearSelectionClick
    \/ \E w \in Range(Huc10Ids) : Huc10Click(w)

\* the store after login() has fulfilled: token held, gauges loaded, nothing pending
SignedInStore ==
    /\ sessionToken = "tok"
    /\ sessionExpiresAt = "valid"
    /\ gaugesGeoJson = StoreGauges
    /\ selectedGaugeIds = <<>>
    /\ selectedDomainCodes = <<>>
    /\ selectedDomainGaugeMap = <<>>
    /\ selectionBy = "gauge"
    /\ selectionType = "Single"
    /\ pending = NothingPending

InitWholeMap ==
    /\ gOp = "none"
    /\ gPoint = <<0, 0>>
    /\ gGeom = NullGeometry
    /\ gGauges = NoGauges
    /\ gDone = FALSE
    /\ gInside = FALSE
    /\ gIds = <<>>
    /\ codeCall = NoCodeCall
    /\ InitMap
    /\ SignedInStore
    /\ last = NoStep

SpecMap == InitWholeMap /\ [][NextMap]_vars

(***************************************************************************)
(* Session and download: login, logout and downloadSelectedData with their *)
(* pending responses in any interleaving, gauge clicks to select.  The     *)
(* store's functions are also called in states the sidebar does not offer  *)
(* them in (logout and download without a token).                          *)
(***************************************************************************)
\* logout() with an empty token: returns at once
LogoutWithoutToken ==
    /\ ~SignedIn
    /\ last' = [NoStep EXCEPT !.op = "logoutWithoutToken"]
    /\ UNCHANGED storeVars
    /\ stylesKept
    /\ mapFrame

\* faulty variant of DownloadRefusal: the selection is not looked at
DownloadRefusal_NoGaugeCheck(token, expired, gaugeIds) ==
    IF token = "" THEN ErrSignIn
    ELSE IF expired THEN ErrHasExpired
    ELSE ""

\* the error downloadSelectedData raises before it sends anything, "" for none:
\* ensureValidSession(), then the check of selectedGaugeIds
DownloadRefusal(token, expired, gaugeIds) ==
    IF token = "" THEN ErrSignIn
    ELSE IF expired THEN ErrHasExpired
    ELSE IF Len(gaugeIds) = 0 THEN ErrNoGauge
    ELSE ""

\* downloadSelectedData(...) up to its fetch
DownloadCall ==
    LET refusal == DownloadRefusal(sessionToken, isSessionExpired, selectedGaugeIds)
    IN  /\ UNCHANGED <<selectionBy, selectionType>>
        /\ IF refusal = ""
           THEN /\ pending.download < MaxPending
                /\ pending' = [pending EXCEPT !.download = @ + 1, !.loadingDownload = TRUE]
                /\ UNCHANGED <<sessionToken, sessionExpiresAt, gaugesGeoJson, selectionVars>>
                /\ stylesKept
           ELSE IF refusal = ErrHasExpired
           THEN /\ clearSession
                /\ WatchersRun
                /\ UNCHANGED pending
           ELSE /\ UNCHANGED <<sessionToken, sessionExpiresAt, gaugesGeoJson, selectionVars,
                               pending>>
                /\ stylesKept
        /\ last' = [NoStep EXCEPT !.op = "downloadCall", !.error = refusal,
                                  !.sent = refusal = "", !.before = Before]
        /\ mapFrame

\* how the download endpoint can answer: the archive; not-ok with the detail
\* 'Invalid or expired STREAMS session token.'; not-ok with another detail or a body
\* that is not JSON; the fetch itself rejects
DownloadAnswers == {"ok", "invalidToken", "failed", "network"}

\* the message of the error downloadSelectedData raises for an answer.  For the
\* invalid-token detail the Error thrown inside the inner try is caught by that try's
\* catch block, and  throw new Error(detail)  after it raises the endpoint's detail.
DownloadError(kind) ==
    CASE kind = "ok" -> ""
      [] kind = "invalidToken" -> ErrInvalidToken
      [] kind = "failed" -> "Download failed"
      [] kind = "network" -> "Failed to fetch"

\* the download fetch settles; finally loading.download = false
DownloadResponse(kind) ==
    /\ pending.download > 0
    /\ pending' = [pending EXCEPT !.download = @ - 1, !.loadingDownload = FALSE]
    /\ UNCHANGED <<selectionBy, selectionType>>
    /\ IF kind = "invalidToken"
       THEN clearSession /\ WatchersRun
       ELSE /\ UNCHANGED <<sessionToken, sessionExpiresAt, gaugesGeoJson, selectionVars>>
            /\ stylesKept
    /\ last' = [NoStep EXCEPT !.op = "downloadResponse", !.kind = kind,
                              !.error = DownloadError(kind), !.before = Before]
    /\ mapFrame

NextSession ==
    \/ LoginStart
    \/ \E ok \in BOOLEAN, expiresAt \in {"valid", "expired"} : LoginResponse(ok, expiresAt)
    \/ \E ok \in BOOLEAN, awaited \in BOOLEAN : OptionsResponse(ok, awaited)
    \/ \E kind \in {"ok", "invalidToken", "failed"}, awaited \in BOOLEAN :
           GaugesResponse(kind, awaited)
    \/ LogoutStart
    \/ LogoutWithoutToken
    \/ \E ok \in BOOLEAN : LogoutSettles(ok)
    \/ ClockPassesExpiry
    \/ \E i \in 1..Len(StoreGauges.features) : GaugeClick(i)
    \/ DownloadCall
    \/ \E kind \in DownloadAnswers : DownloadResponse(kind)

InitSession ==
    /\ gOp = "none"
    /\ gPoint = <<0, 0>>
    /\ gGeom = NullGeometry
    /\ gGauges = NoGauges
    /\ gDone = FALSE
    /\ gInside = FALSE
    /\ gIds = <<>>
    /\ codeCall = NoCodeCall
    /\ InitMap
    /\ InitStore
    /\ last = NoStep

SpecSession == InitSession /\ [][NextSession]_vars

(***************************************************************************)
(* SpecCodes: normalizeHucCode and the two places that compare normalized  *)
(* codes, applied to codes drawn by Init: the cache of queryHuc10ByHuc6    *)
(* (a collection resolved for code a, then a lookup for code b) and        *)
(* syncHuc10SelectionStyles (code a selected, a feature with code b on the *)
(* layer).                                                                 *)
(***************************************************************************)
\* codes as attribute values carry them: digits and separators, 'N/A', null
CodeInputs == SeqsUpTo({"1", "2", "-"}, MaxCodeLen) \cup {NA, NullCode}

codeFrame ==
    UNCHANGED <<gOp, gPoint, gGeom, gGauges, gDone, gInside, gIds, huc10Highlighted,
                storeVars, last>>

ApplyNormalizeHucCode ==
    /\ codeCall.op = "normalizeHucCode"
    /\ ~codeCall.done
    /\ codeCall' = [codeCall EXCEPT
                        !.done = TRUE,
                        !.norm = normalizeHucCode(codeCall.a),
                        !.again = normalizeHucCode(normalizeHucCode(codeCall.a))]
    /\ UNCHANGED queryVars
    /\ codeFrame

\* queryHuc10ByHuc6 has resolved a collection for code a: if (normalizedCode) set
StoreUnderCode ==
    LET normalizedCode == normalizeHucCode(codeCall.a)
    IN  /\ codeCall.op = "cacheKey"
        /\ ~codeCall.stored
        /\ codeCall' = [codeCall EXCEPT !.stored = TRUE]
        /\ huc10QueryCache' =
              IF normalizedCode # <<>>
              THEN CacheSet(huc10QueryCache, normalizedCode, <<"W1">>)
              ELSE huc10QueryCache
        /\ UNCHANGED <<routeName, huc10QueryRequestId, huc10DetectedField, huc10Layer,
                       selectedHuc6Layer, calls, queriesIssued, returned, everDetected>>
        /\ codeFrame

\* queryHuc10ByHuc6 is called for code b: does the cache answer
LookupCode ==
    /\ codeCall.op = "cacheKey"
    /\ codeCall.stored
    /\ ~codeCall.done
    /\ codeCall' = [codeCall EXCEPT !.done = TRUE,
                                    !.same = CacheHit(normalizeHucCode(codeCall.b))]
    /\ UNCHANGED queryVars
    /\ codeFrame

\* syncHuc10SelectionStyles with code a selected: is the feature w drawn selected
ApplySyncHuc10SelectionStyles ==
    /\ codeCall.op = "selectedCode"
    /\ ~codeCall.done
    /\ codeCall' = [codeCall EXCEPT
                        !.done = TRUE,
                        !.same = codeCall.w \in syncHuc10SelectionStyles(
                                     <<codeCall.w>>, "domain", <<codeCall.a>>)]
    /\ UNCHANGED queryVars
    /\ codeFrame

NextCodes ==
    \/ ApplyNormalizeHucCode
    \/ StoreUnderCode
    \/ LookupCode
    \/ ApplySyncHuc10SelectionStyles

InitCodes ==
    /\ gOp = "none"
    /\ gPoint = <<0, 0>>
    /\ gGeom = NullGeometry
    /\ gGauges = NoGauges
    /\ gDone = FALSE
    /\ gInside = FALSE
    /\ gIds = <<>>
    /\ InitMap
    /\ InitStore
    /\ last = NoStep
    /\ codeCall \in
          {[NoCodeCall EXCEPT !.op = "normalizeHucCode", !.a = a] : a \in CodeInputs}
          \cup {[NoCodeCall EXCEPT !.op = "cacheKey", !.a = a, !.b = b] :
                   a \in CodeInputs, b \in CodeInputs}
          \cup {[NoCodeCall EXCEPT
                     !.op = "selectedCode", !.a = a, !.w = w,
                     !.b = extractWatershedMetadata(Huc10Feature(w).properties, 10).code] :
                   a \in CodeInputs \ {NullCode}, w \in Range(Huc10Ids)}

SpecCodes == InitCodes /\ [][NextCodes]_vars

(***************************************************************************)
(* The store's selection functions called in any order with any argument.  *)
(***************************************************************************)
\* faulty variant of setSelectedGauges: the list is stored as given
setSelectedGauges_Raw(gaugeIds) == gaugeIds

\* setSelectedGauges: the next selectedGaugeIds
setSelectedGauges(gaugeIds) == Dedup(Truthy(gaugeIds))

GaugeIdArgs == {"", "g1", "g2"}

GaugeIdListArgs == SeqsUpTo(GaugeIdArgs, MaxIdsArg)

DomainCodeArgs == {<<>>, <<"1", "2", "1">>, NA}

storeFrame ==
    UNCHANGED <<sessionToken, sessionExpiresAt, gaugesGeoJson, pending, queryVars, geomVars>>

CallToggleGaugeSelection(gaugeId) ==
    /\ selectedGaugeIds' = toggleGaugeSelection(selectedGaugeIds, selectionType, gaugeId)
    /\ last' = [NoStep EXCEPT !.op = "toggleGaugeSelection", !.result = <<gaugeId>>,
                              !.before = Before]
    /\ UNCHANGED <<selectedDomainCodes, selectedDomainGaugeMap, selectionBy, selectionType>>
    /\ stylesKept
    /\ storeFrame

CallSetSelectedGauges(gaugeIds) ==
    /\ selectedGaugeIds' = setSelectedGauges(gaugeIds)
    /\ last' = [NoStep EXCEPT !.op = "setSelectedGauges", !.result = gaugeIds,
                              !.before = Before]
    /\ UNCHANGED <<selectedDomainCodes, selectedDomainGaugeMap, selectionBy, selectionType>>
    /\ stylesKept
    /\ storeFrame

CallToggleDomainSelection(domainCode, gaugeIdsForDomain) ==
    LET nextMap == toggleDomainMap(selectedDomainGaugeMap, selectionType, domainCode,
                                   gaugeIdsForDomain)
    IN  /\ IF domainCode = <<>>
           THEN UNCHANGED <<selectionVars, huc10Highlighted>>
           ELSE /\ selectedDomainGaugeMap' = nextMap
                /\ selectedDomainCodes' = ObjectKeys(nextMap)
                /\ selectedGaugeIds' =
                       toggleDomainGaugeIds(nextMap, selectionType, gaugeIdsForDomain)
                /\ huc10Highlighted' =
                       syncHuc10SelectionStyles(huc10Layer, selectionBy, ObjectKeys(nextMap))
        /\ last' = [NoStep EXCEPT !.op = "toggleDomainSelection", !.norm = domainCode,
                                  !.result = gaugeIdsForDomain, !.before = Before]
        /\ UNCHANGED <<selectionBy, selectionType>>
        /\ storeFrame

CallClearSelectedGauges ==
    /\ selectedGaugeIds' = <<>>
    /\ last' = [NoStep EXCEPT !.op = "clearSelectedGauges", !.before = Before]
    /\ UNCHANGED <<selectedDomainCodes, selectedDomainGaugeMap, selectionBy, selectionType>>
    /\ stylesKept
    /\ storeFrame

CallClearSelectedDomains ==
    /\ selectedDomainCodes' = <<>>
    /\ selectedDomainGaugeMap' = <<>>
    /\ last' = [NoStep EXCEPT !.op = "clearSelectedDomains", !.before = Before]
    /\ UNCHANGED <<selectedGaugeIds, selectionBy, selectionType>>
    /\ WatchersRun
    /\ storeFrame

CallClearSelections ==
    /\ clearSelections
    /\ last' = [NoStep EXCEPT !.op = "clearSelections", !.before = Before]
    /\ UNCHANGED <<selectionBy, selectionType>>
    /\ WatchersRun
    /\ storeFrame

CallSetSelectionBy(mode) ==
    /\ selectionBy' = mode
    /\ clearSelections
    /\ last' = [NoStep EXCEPT !.op = "setSelectionBy", !.before = Before]
    /\ UNCHANGED selectionType
    /\ WatchersRun
    /\ storeFrame

CallSetSelectionType(mode) ==
    /\ selectionType' = mode
    /\ clearSelections
    /\ last' = [NoStep EXCEPT !.op = "setSelectionType", !.before = Before]
    /\ UNCHANGED selectionBy
    /\ WatchersRun
    /\ storeFrame

NextStore ==
    \/ \E gaugeId \in GaugeIdArgs : CallToggleGaugeSelection(gaugeId)
    \/ \E gaugeIds \in GaugeIdListArgs : CallSetSelectedGauges(gaugeIds)
    \/ \E domainCode \in DomainCodeArgs, gaugeIds \in GaugeIdListArgs :
           CallToggleDomainSelection(domainCode, gaugeIds)
    \/ CallClearSelectedGauges
    \/ CallClearSelectedDomains
    \/ CallClearSelections
    \/ \E mode \in SelectionModes : CallSetSelectionBy(mode)
    \/ \E mode \in SelectionTypes : CallSetSelectionType(mode)

InitStoreCalls ==
    /\ gOp = "none"
    /\ gPoint = <<0, 0>>
    /\ gGeom = NullGeometry
    /\ gGauges = NoGauges
    /\ gDone = FALSE
    /\ gInside = FALSE
    /\ gIds = <<>>
    /\ codeCall = NoCodeCall
    /\ InitMap
    /\ InitStore
    /\ last = NoStep

SpecStore == InitStoreCalls /\ [][NextStore]_vars

(***************************************************************************)
(* C1: latest request wins.  A resolved query clears and repopulates the   *)
(* HUC10 layer only if no later HUC6 click has started a request since its *)
(* own click; the response of a superseded click leaves the layer as it    *)
(* was.                                                                    *)
(***************************************************************************)
C1_LatestRequestWins ==
    [][(last'.op \in {"whereResponse", "intersectsResponse"} /\ last'.resolved) =>
          /\ last'.applied => ~calls[last'.rid].superseded
          /\ calls[last'.rid].superseded => (~last'.applied /\ huc10Layer' = huc10Layer)]_vars

\* on the stream route, the response of a superseded click was resolved and dropped
\* while the layer shows the features of the later click
C1_Witness ==
    /\ last.op = "whereResponse"
    /\ last.resolved
    /\ last.superseded
    /\ ~last.applied
    /\ isStreamRoute
    /\ last.result = <<"W1", "W2">>
    /\ huc10Layer = <<"W3", "W4">>

(***************************************************************************)
(* C2 as stated: once queryHuc10ByHuc6 has returned a collection for a     *)
(* non-empty normalized code, every later call for that code returns that  *)
(* same collection and issues no remote query.                             *)
(***************************************************************************)
StartsCall == last'.op = "huc6Click" /\ last'.norm # <<>>

C2_SameCollectionForever ==
    [][(StartsCall /\ last'.norm \in DOMAIN returned) =>
          /\ queriesIssued' = queriesIssued
          /\ last'.resolved
          /\ \A collection \in returned[last'.norm].all : last'.result = collection]_vars

(***************************************************************************)
(* C2 amended: once queryHuc10ByHuc6 has returned a collection for a       *)
(* non-empty normalized code, every later call for that code issues no     *)
(* remote query and returns the collection most recently returned for the  *)
(* code (a resolution that was already in flight may have replaced the     *)
(* first one).                                                             *)
(***************************************************************************)
C2_CachedLatestCollection ==
    [][(StartsCall /\ last'.norm \in DOMAIN returned) =>
          /\ queriesIssued' = queriesIssued
          /\ last'.hit
          /\ last'.resolved
          /\ last'.result = returned[last'.norm].latest]_vars

\* a call answered from the cache after two resolutions returned different collections
C2_Witness ==
    /\ last.op = "huc6Click"
    /\ last.hit
    /\ last.norm \in DOMAIN returned
    /\ Cardinality(returned[last.norm].all) = 2
    /\ last.result = returned[last.norm].latest

(***************************************************************************)
(* C3 as stated: while a resolution for a normalized code is in flight, a  *)
(* second call for the same code issues no further remote query, so at     *)
(* most one resolution per code is ever in flight.                         *)
(***************************************************************************)
InFlightFor(cs, normalizedCode) ==
    {rid \in DOMAIN cs : cs[rid].normalizedCode = normalizedCode}

C3_Coalesces ==
    [][/\ (StartsCall /\ InFlightFor(calls, last'.norm) # {})
              => queriesIssued' = queriesIssued
       /\ \A rid \in DOMAIN calls' :
              calls'[rid].normalizedCode # <<>>
                  => InFlightFor(calls', calls'[rid].normalizedCode) = {rid}]_vars

(***************************************************************************)
(* C3 amended: the cache holds settled results only.  A call for a         *)
(* non-empty normalized code issues no remote query exactly when some call *)
(* for that code has already returned; a call made while the first         *)
(* resolution is still in flight sends its own query, so resolutions for   *)
(* the same code can be in flight together.                                *)
(***************************************************************************)
C3_NoQueryIffAlreadyReturned ==
    [][StartsCall =>
          ((queriesIssued' = queriesIssued) <=> (last'.norm \in DOMAIN returned))]_vars

\* two resolutions for the same code are in flight, the second just started
C3_Witness ==
    /\ last.op = "huc6Click"
    /\ ~last.hit
    /\ last.norm # <<>>
    /\ Cardinality(InFlightFor(calls, last.norm)) = 2

(***************************************************************************)
(* C4: in a call with a non-empty normalized code the intersects query is  *)
(* sent only after the where-query on every candidate field has failed or  *)
(* returned no feature, and a where-query that returns a feature ends the  *)
(* call with that collection, no later candidate being tried.              *)
(***************************************************************************)
C4_FieldsBeforeIntersects ==
    [][/\ \A rid \in DOMAIN calls' :
              (calls'[rid].normalizedCode # <<>> /\ calls'[rid].phase = "intersects")
                  => /\ Range(calls'[rid].tried) = Range(FieldCandidates)
                     /\ Len(calls'[rid].tried) = Len(FieldCandidates)
       /\ (last'.op = "whereResponse" /\ Len(last'.got) > 0)
              => /\ last'.resolved
                 /\ last'.result = last'.got
                 /\ last'.rid \notin DOMAIN calls'
                 /\ queriesIssued' = queriesIssued
       /\ (last'.op = "whereResponse" /\ Len(last'.got) = 0)
              => /\ ~last'.resolved
                 /\ last'.rid \in DOMAIN calls'
                 /\ queriesIssued' = queriesIssued + 1]_vars

\* a where-query on a later candidate returned features after the earlier ones
\* gave nothing, while another call has fallen back to the intersects query
C4_Witness ==
    /\ last.op = "whereResponse"
    /\ last.resolved
    /\ Len(last.got) > 0
    /\ huc10DetectedField = "huc_code"
    /\ \E rid \in DOMAIN calls :
           calls[rid].normalizedCode # <<>> /\ calls[rid].phase = "intersects"

(***************************************************************************)
(* C5: the two selection modes are exclusive in their effect.  While       *)
(* selectionBy is 'gauge' a click on a HUC10 polygon changes none of       *)
(* selectedGaugeIds, selectedDomainCodes, selectedDomainGaugeMap; while    *)
(* selectionBy is 'domain' a click on a gauge marker changes none of them. *)
(***************************************************************************)
C5_ModesExclusive ==
    [][/\ (last'.op = "huc10Click" /\ selectionBy = "gauge") => UNCHANGED selectionVars
       /\ (last'.op = "gaugeClick" /\ selectionBy = "domain") => UNCHANGED selectionVars]_vars

\* in gauge mode with a gauge selected, a HUC10 polygon holding gauges was clicked
C5_Witness ==
    /\ last.op = "huc10Click"
    /\ selectionBy = "gauge"
    /\ last.result # <<>>
    /\ last.before.gauges = <<"g3">>
    /\ selectedGaugeIds = <<"g3">>
    /\ selectedDomainCodes = <<>>

(***************************************************************************)
(* C6 as stated: getGaugeIdsInLayer returns the id of a gauge if and only  *)
(* if its coordinates lie inside the polygon's geometry.                   *)
(***************************************************************************)
C6_ExactlyContainedGauges ==
    (gDone /\ gOp = "getGaugeIdsInLayer") =>
        Range(gIds) =
            {gGauges.features[i].id : i \in
                {j \in 1..Len(gGauges.features) :
                    /\ gGauges.features[j].hasCoords
                    /\ gGauges.features[j].id # ""
                    /\ pointInGeometry(gGauges.features[j].coords, gGeom)}}

(***************************************************************************)
(* C7: setSelectionBy and setSelectionType leave selectedGaugeIds,         *)
(* selectedDomainCodes and selectedDomainGaugeMap empty, and in every      *)
(* state with selectionBy = 'gauge' there is no selected domain code and   *)
(* the domain-to-gauges map is empty.                                      *)
(***************************************************************************)
C7_ModeChangeClears ==
    /\ [](selectionBy = "gauge" =>
              (selectedDomainCodes = <<>> /\ selectedDomainGaugeMap = <<>>))
    /\ [][last'.op \in {"setSelectionBy", "setSelectionType", "resetOptions"} =>
              /\ selectedGaugeIds' = <<>>
              /\ selectedDomainCodes' = <<>>
              /\ selectedDomainGaugeMap' = <<>>]_vars

\* the mode went from domain, with two domains and their gauges selected, to gauge
C7_Witness ==
    /\ last.op = "setSelectionBy"
    /\ selectionBy = "gauge"
    /\ Len(last.before.codes) = 2
    /\ last.before.gauges # <<>>
    /\ selectedGaugeIds = <<>>
    /\ selectedDomainCodes = <<>>
    /\ selectedDomainGaugeMap = <<>>

(***************************************************************************)
(* C8: in every state with selectionType = 'Single' at most one domain     *)
(* code is selected and, when selectionBy = 'gauge', at most one gauge id. *)
(***************************************************************************)
C8_SingleCardinality ==
    selectionType = "Single" =>
        /\ Len(selectedDomainCodes) <= 1
        /\ selectionBy = "gauge" => Len(selectedGaugeIds) <= 1

\* Single, gauge mode: a click on another marker replaced the selected gauge
C8_Witness ==
    /\ selectionType = "Single"
    /\ selectionBy = "gauge"
    /\ last.op = "gaugeClick"
    /\ last.before.gauges = <<"g1">>
    /\ selectedGaugeIds = <<"g2">>

(***************************************************************************)
(* C9 as stated: pointInPolygonRings is true exactly when the point lies   *)
(* inside an odd number of the polygon's rings.                            *)
(***************************************************************************)
RingsContaining(point, polygonRings) ==
    {i \in 1..Len(polygonRings) : isPointInRing(point, polygonRings[i])}

C9_EvenOddRingCount ==
    (gDone /\ gOp = "pointInPolygonRings") =>
        (gInside <=> (Cardinality(RingsContaining(gPoint, gGeom.coordinates)) % 2 = 1))

(***************************************************************************)
(* C9 amended: pointInPolygonRings is true exactly when the point lies     *)
(* inside the first ring and inside none of the other rings; this is the   *)
(* odd-ring-count rule whenever the point is inside at most one ring after *)
(* the first and inside the first whenever it is inside any other.         *)
(***************************************************************************)
C9_OuterMinusHoles ==
    (gDone /\ gOp = "pointInPolygonRings") =>
        LET in == RingsContaining(gPoint, gGeom.coordinates)
        IN  /\ gInside <=> (1 \in in /\ in \subseteq {1})
            /\ (Cardinality(in \ {1}) <= 1 /\ (in # {} => 1 \in in))
                  => (gInside <=> (Cardinality(in) % 2 = 1))

\* a point inside the outer ring and inside one hole has been tested
C9_Witness ==
    /\ gDone
    /\ gOp = "pointInPolygonRings"
    /\ gGeom.coordinates = <<RingOuter, RingHoleA>>
    /\ gPoint = <<2, 2>>
    /\ ~gInside

(***************************************************************************)
(* C10 as stated: pointInGeometry is the disjunction over the members of a *)
(* MultiPolygon, pointInPolygonRings of the rings of a Polygon or of an    *)
(* ArcGIS rings geometry, and false for a missing geometry or another type.*)
(***************************************************************************)
C10_PointInGeometryByType ==
    (gDone /\ gOp = "pointInGeometry") =>
        (gInside <=>
            IF gGeom.isNull THEN FALSE
            ELSE IF gGeom.type = "MultiPolygon"
                 THEN \E k \in 1..Len(gGeom.coordinates) :
                          pointInPolygonRings(gPoint, gGeom.coordinates[k])
            ELSE IF gGeom.type = "Polygon"
                 THEN pointInPolygonRings(gPoint, gGeom.coordinates)
            ELSE IF gGeom.hasRings
                 THEN pointInPolygonRings(gPoint, gGeom.rings)
            ELSE FALSE)

(***************************************************************************)
(* C11 as stated: in every quiescent state a polygon on the HUC10 layer is *)
(* drawn highlighted if and only if selectionBy = 'domain' and the         *)
(* polygon's code is among selectedDomainCodes.  (Every state of the model *)
(* is quiescent: a step runs its handler and the watchers it triggers.)    *)
(***************************************************************************)
C11_StylesInSync ==
    \A w \in Range(huc10Layer) :
        (w \in huc10Highlighted) <=>
            /\ selectionBy = "domain"
            /\ extractWatershedMetadata(Huc10Feature(w).properties, 10).code
                   \in Range(selectedDomainCodes)

(***************************************************************************)
(* C12: the request-id counter never decreases; a HUC6 click on a feature  *)
(* with geometry increases it by exactly one; no other step (a click on a  *)
(* feature without geometry, a query completion, a route change, a mode    *)
(* change, a clear, a HUC10 click) changes it.                             *)
(***************************************************************************)
C12_CounterMonotone ==
    [][/\ huc10QueryRequestId' >= huc10QueryRequestId
       /\ huc10QueryRequestId' =
              IF last'.op = "huc6Click" THEN huc10QueryRequestId + 1
              ELSE huc10QueryRequestId]_vars

\* after two counted clicks, a query completion of the first click, a mode change
\* and a HUC10 click in domain mode, the counter still reads two
C12_Witness ==
    /\ huc10QueryRequestId = 2
    /\ last.op = "huc10Click"
    /\ selectedDomainCodes # <<>>
    /\ DOMAIN calls = {2}

(***************************************************************************)
(* C13 as stated: when the query of a superseded HUC6 click fails after a  *)
(* later click has been made, no 'Watershed Query Error' alert is          *)
(* displayed and the HUC10 layer is unchanged.                             *)
(***************************************************************************)
C13_StaleFailureSilent ==
    [][(last'.op = "intersectsResponse" /\ ~last'.resolved /\ last'.superseded) =>
          (~last'.alert /\ huc10Layer' = huc10Layer)]_vars

(***************************************************************************)
(* C14: in every state with selectionBy = 'domain', selectedDomainCodes is *)
(* the key list of selectedDomainGaugeMap and selectedGaugeIds is the      *)
(* union, without duplicates, of the gauge lists stored in the map.        *)
(***************************************************************************)
C14_DomainSetsConsistent ==
    selectionBy = "domain" =>
        /\ selectedDomainCodes = ObjectKeys(selectedDomainGaugeMap)
        /\ Range(selectedGaugeIds) = Range(Flat(ObjectValues(selectedDomainGaugeMap)))
        /\ Cardinality(Range(selectedGaugeIds)) = Len(selectedGaugeIds)

\* Multiple domain mode with two domains selected whose gauge lists share a gauge
C14_Witness ==
    /\ selectionBy = "domain"
    /\ selectionType = "Multiple"
    /\ Len(selectedDomainGaugeMap) = 2
    /\ Range(selectedDomainGaugeMap[1].value) \cap Range(selectedDomainGaugeMap[2].value) # {}
    /\ last.op = "huc10Click"

(***************************************************************************)
(* C15 as stated: once the query of the most recent HUC6 click has settled *)
(* (with success or with failure), the HUC10 layer holds only              *)
(* subwatersheds of the region highlighted as the selected HUC6.           *)
(***************************************************************************)
\* the HUC10 features lying in a region: those its geometry meets and, when the
\* region has a code, whose code extends it
SubwatershedsOf(region) ==
    LET huc6 == normalizeHucCode(
                    extractWatershedMetadata(Huc6Feature(region).properties, 6).code)
        codeOf(w) == normalizeHucCode(
                         extractWatershedMetadata(Huc10Feature(w).properties, 10).code)
    IN  {w \in Range(Huc6Feature(region).intersecting) :
            huc6 # <<>> => StartsWith(codeOf(w), huc6)}

LatestClickSettled ==
    huc10QueryRequestId >= 1 /\ huc10QueryRequestId \notin DOMAIN calls

C15_LayerOfSelectedHuc6 ==
    LatestClickSettled => Range(huc10Layer) \subseteq SubwatershedsOf(selectedHuc6Layer)

(***************************************************************************)
(* C16: when the clicked HUC6 region has a non-empty normalized code h,    *)
(* the features a click puts on the HUC10 layer are exactly the returned   *)
(* features whose normalized HUC10 code starts with h (a feature with      *)
(* another code or with no code is dropped); when h is empty the layer     *)
(* gets every returned feature.                                            *)
(***************************************************************************)
Huc10CodeOf(w) ==
    normalizeHucCode(extractWatershedMetadata(Huc10Feature(w).properties, 10).code)

C16_StrictNesting ==
    [][last'.applied =>
          LET h == last'.norm
          IN  /\ h # <<>> =>
                    /\ \A w \in Range(huc10Layer') : StartsWith(Huc10CodeOf(w), h)
                    /\ \A w \in Range(last'.result) :
                           StartsWith(Huc10CodeOf(w), h) => w \in Range(huc10Layer')
                    /\ Range(huc10Layer') \subseteq Range(last'.result)
              /\ h = <<>> => huc10Layer' = last'.result]_vars

\* the intersects answer for code 12 held a feature with another code, which was dropped
C16_Witness ==
    /\ last.op = "intersectsResponse"
    /\ last.applied
    /\ last.norm = <<"1", "2">>
    /\ last.result = <<"W1", "W2", "W3">>
    /\ huc10Layer = <<"W1", "W2">>

(***************************************************************************)
(* C17: selectedGaugeIds holds no id twice and no falsy id, after any      *)
(* sequence of toggleGaugeSelection, setSelectedGauges,                    *)
(* toggleDomainSelection, clear and mode-change calls with any arguments.  *)
(***************************************************************************)
C17_GaugeIdsAreSet ==
    /\ Cardinality(Range(selectedGaugeIds)) = Len(selectedGaugeIds)
    /\ "" \notin Range(selectedGaugeIds)

\* setSelectedGauges was handed a list with a repeated id
C17_Witness ==
    /\ last.op = "setSelectedGauges"
    /\ last.result = <<"g1", "g1">>
    /\ selectedGaugeIds = <<"g1">>

(***************************************************************************)
(* C18: in Multiple mode toggleGaugeSelection of a (truthy) gauge id adds  *)
(* the id when it is not selected and removes it when it is, keeps every   *)
(* other selected id, and applied twice in a row to the same id gives back *)
(* the original set of selected ids.                                       *)
(***************************************************************************)
C18_ToggleInvolution ==
    [][(last'.op = "toggleGaugeSelection" /\ selectionType = "Multiple") =>
          LET g == last'.result[1]
          IN  /\ (g # "" /\ g \notin Range(selectedGaugeIds)) =>
                     Range(selectedGaugeIds') = Range(selectedGaugeIds) \cup {g}
              /\ (g # "" /\ g \in Range(selectedGaugeIds)) =>
                     Range(selectedGaugeIds') = Range(selectedGaugeIds) \ {g}
              /\ (last.op = "toggleGaugeSelection" /\ last.result = last'.result) =>
                     Range(selectedGaugeIds') = Range(last.before.gauges)]_vars

\* Multiple: g1 was toggled on over g2 and then toggled off again
C18_Witness ==
    /\ selectionType = "Multiple"
    /\ last.op = "toggleGaugeSelection"
    /\ last.result = <<"g1">>
    /\ last.before.gauges = <<"g2", "g1">>
    /\ selectedGaugeIds = <<"g2">>

(***************************************************************************)
(* C19: in Multiple mode toggleDomainSelection of a selected domain code   *)
(* removes that code, and a selected gauge id stays selected if and only   *)
(* if it is in the gauge list of a domain that is still selected; of a     *)
(* code that is not selected it adds the code with its gauges.             *)
(***************************************************************************)
GaugesOfDomains(map) == UNION {Range(map[i].value) : i \in 1..Len(map)}

C19_DomainToggle ==
    [][(last'.op = "toggleDomainSelection" /\ selectionType = "Multiple"
            /\ last'.norm # <<>>) =>
          LET d == last'.norm
          IN  /\ d \in Range(selectedDomainCodes) =>
                    /\ Range(selectedDomainCodes') = Range(selectedDomainCodes) \ {d}
                    /\ Range(ObjectKeys(selectedDomainGaugeMap')) = Range(selectedDomainCodes')
                    /\ \A g \in Range(selectedGaugeIds) :
                           g \in Range(selectedGaugeIds')
                               <=> g \in GaugesOfDomains(selectedDomainGaugeMap')
              /\ d \notin Range(selectedDomainCodes) =>
                    /\ Range(selectedDomainCodes') = Range(selectedDomainCodes) \cup {d}
                    /\ \E i \in 1..Len(selectedDomainGaugeMap') :
                           /\ selectedDomainGaugeMap'[i].key = d
                           /\ Range(selectedDomainGaugeMap'[i].value)
                                  = Range(last'.result) \ {""}
                    /\ Range(last'.result) \ {""} \subseteq Range(selectedGaugeIds')]_vars

\* Multiple: of two selected domains one was toggled off; the gauge they shared stays,
\* the gauge only it held goes
C19_Witness ==
    /\ selectionType = "Multiple"
    /\ last.op = "toggleDomainSelection"
    /\ Len(last.before.codes) = 2
    /\ Len(selectedDomainCodes) = 1
    /\ Range(last.before.gauges) = {"g1", "g2"}
    /\ Len(selectedGaugeIds) = 1

(***************************************************************************)
(* C20 as stated: in Single mode toggleGaugeSelection(g) with a truthy g   *)
(* ends with selectedGaugeIds = [g], and toggleDomainSelection(d, ids)     *)
(* with a truthy d ends with selectedDomainCodes = [d] and selectedGaugeIds*)
(* equal to the de-duplicated ids, whatever was selected before.           *)
(***************************************************************************)
C20_SingleReplaces ==
    [][selectionType = "Single" =>
          /\ (last'.op = "toggleGaugeSelection" /\ last'.result[1] # "") =>
                 selectedGaugeIds' = last'.result
          /\ (last'.op = "toggleDomainSelection" /\ last'.norm # <<>>) =>
                 /\ selectedDomainCodes' = <<last'.norm>>
                 /\ selectedGaugeIds' = Dedup(last'.result)]_vars

(***************************************************************************)
(* C20 amended: as stated, except that selectedGaugeIds ends as the        *)
(* de-duplicated ids with the falsy ids left out.                          *)
(***************************************************************************)
C20_SingleReplacesTruthy ==
    [][selectionType = "Single" =>
          /\ (last'.op = "toggleGaugeSelection" /\ last'.result[1] # "") =>
                 selectedGaugeIds' = last'.result
          /\ (last'.op = "toggleDomainSelection" /\ last'.norm # <<>>) =>
                 /\ selectedDomainCodes' = <<last'.norm>>
                 /\ selectedGaugeIds' = SelectSeq(Dedup(last'.result), LAMBDA id : id # "")]_vars

\* Single: the domain already selected was toggled again, with a list repeating an id
C20_Witness ==
    /\ selectionType = "Single"
    /\ last.op = "toggleDomainSelection"
    /\ last.norm = <<"1", "2", "1">>
    /\ last.before.codes = <<last.norm>>
    /\ last.result = <<"g1", "g1">>
    /\ selectedDomainCodes = <<last.norm>>
    /\ selectedGaugeIds = <<"g1">>

(***************************************************************************)
(* Bounded work of one resolution (part of C21): the fields a resolution   *)
(* has queried are candidate fields, each queried once; a resolution sends *)
(* at most 7 where-queries and 1 intersects query; every settled query     *)
(* either ends the resolution or moves it to a query it has not yet sent,  *)
(* and the intersects query, once settled, ends it.                        *)
(***************************************************************************)
BoundedWork ==
    /\ \A rid \in DOMAIN calls' :
          LET c == calls'[rid]
          IN  /\ Cardinality(Range(c.tried)) = Len(c.tried)
              /\ Range(c.tried) \subseteq Range(FieldCandidates)
              /\ c.phase = "where" =>
                     /\ c.fields[c.idx] \notin Range(c.tried)
                     /\ Len(c.tried) + 1 <= 7
              /\ c.phase = "intersects" => Len(c.tried) <= 7
    /\ \A rid \in DOMAIN calls :
          (last'.op \in {"whereResponse", "intersectsResponse"} /\ last'.rid = rid) =>
              \/ rid \notin DOMAIN calls'
              \/ /\ calls[rid].phase = "where"
                 /\ Len(calls'[rid].tried) = Len(calls[rid].tried) + 1

\* a step in which a where-query returns features
WhereQuerySucceeds == last'.op = "whereResponse" /\ last'.resolved

\* a step in which a resolution starts its where-queries
ResolutionStarts == last'.op = "huc6Click" /\ ~last'.hit /\ last'.norm # <<>>

(***************************************************************************)
(* C21 as stated: after a where-query on field f returns features, f is    *)
(* remembered and every resolution that starts later tries f first; and    *)
(* the work of one resolution is bounded.                                  *)
(***************************************************************************)
C21_DetectedFirstForever ==
    [][/\ WhereQuerySucceeds =>
              huc10DetectedField' = calls[last'.rid].fields[calls[last'.rid].idx]
       /\ ResolutionStarts =>
              \A f \in everDetected : calls'[last'.rid].fields[1] = f
       /\ BoundedWork]_vars

(***************************************************************************)
(* C21 amended: after a where-query on field f returns features, f is      *)
(* remembered, and a resolution that starts later tries first the field    *)
(* remembered at that time (the field of the latest such where-query);     *)
(* the work of one resolution is bounded.                                  *)
(***************************************************************************)
C21_DetectedFirst ==
    [][/\ WhereQuerySucceeds =>
              huc10DetectedField' = calls[last'.rid].fields[calls[last'.rid].idx]
       /\ (ResolutionStarts /\ huc10DetectedField # "") =>
              calls'[last'.rid].fields[1] = huc10DetectedField
       /\ BoundedWork]_vars

\* a resolution that started with the remembered field huc_code has sent its seven
\* where-queries and waits for the intersects query
C21_Witness ==
    /\ huc10DetectedField = "huc_code"
    /\ \E rid \in DOMAIN calls :
          /\ calls[rid].phase = "intersects"
          /\ Len(calls[rid].tried) = 7
          /\ calls[rid].tried[1] = "huc_code"

(***************************************************************************)
(* C22: for a HUC6 code whose normalized form is empty, queryHuc10ByHuc6   *)
(* does not answer from the cache and does not store into it, sends no     *)
(* where-query, sends exactly one intersects query and returns what that   *)
(* query delivers.                                                         *)
(***************************************************************************)
C22_EmptyCodeIntersectsOnly ==
    [][last'.norm = <<>> =>
          /\ last'.op # "whereResponse"
          /\ last'.op = "huc6Click" =>
                 /\ ~last'.hit
                 /\ calls'[last'.rid].phase = "intersects"
                 /\ calls'[last'.rid].tried = <<>>
                 /\ queriesIssued' = queriesIssued + 1
                 /\ huc10QueryCache' = huc10QueryCache
          /\ last'.op = "intersectsResponse" =>
                 /\ calls[last'.rid].tried = <<>>
                 /\ last'.rid \notin DOMAIN calls'
                 /\ queriesIssued' = queriesIssued
                 /\ huc10QueryCache' = huc10QueryCache
                 /\ <<>> \notin DOMAIN huc10QueryCache'
                 /\ last'.resolved => last'.result = last'.got]_vars

\* the intersects query of a click on the region without a code has delivered, while
\* the cache holds the collection of another region
C22_Witness ==
    /\ last.op = "intersectsResponse"
    /\ last.norm = <<>>
    /\ last.resolved
    /\ last.result = <<"W3", "W4">>
    /\ huc10Layer = <<"W3", "W4">>
    /\ DOMAIN huc10QueryCache = {<<"1", "2">>}

\* a step in which the intersects query of a resolution fails, and the resolution
\* with it
ResolutionFails == last'.op = "intersectsResponse" /\ ~last'.resolved

\* what a failed resolution leaves: no cache entry added, the alert, the layer as it was
FailureLeaves ==
    /\ huc10QueryCache' = huc10QueryCache
    /\ last'.alert
    /\ huc10Layer' = huc10Layer

(***************************************************************************)
(* C23 as stated: a resolution whose where-queries all fail or are empty   *)
(* and whose intersects query fails adds no cache entry, shows the error,  *)
(* leaves the HUC10 layer as it was, and a click on the same HUC6 after it *)
(* issues remote queries again.                                            *)
(***************************************************************************)
C23_FailureThenQueriesAgain ==
    [][/\ ResolutionFails => FailureLeaves
       /\ (last.op = "intersectsResponse" /\ ~last.resolved
              /\ last'.op = "huc6Click" /\ last'.norm = last.norm) =>
             /\ ~last'.hit
             /\ queriesIssued' = queriesIssued + 1]_vars

(***************************************************************************)
(* C23 amended: a failed resolution adds no cache entry, shows the error   *)
(* and leaves the HUC10 layer as it was; a click on a HUC6 issues remote   *)
(* queries exactly when the cache holds no entry for its code, so a click  *)
(* after the failure queries again unless another resolution for the same  *)
(* code has succeeded.                                                     *)
(***************************************************************************)
C23_FailureNotCached ==
    [][/\ ResolutionFails => FailureLeaves
       /\ last'.op = "huc6Click" =>
             /\ last'.hit <=> last'.norm \in DOMAIN huc10QueryCache
             /\ ~last'.hit => queriesIssued' = queriesIssued + 1
             /\ last'.hit => queriesIssued' = queriesIssued]_vars

\* the resolution for code 3 has failed after all its queries, over a layer another
\* click had filled
C23_Witness ==
    /\ last.op = "intersectsResponse"
    /\ ~last.resolved
    /\ last.alert
    /\ last.norm = <<"3">>
    /\ <<"3">> \notin DOMAIN huc10QueryCache
    /\ huc10Layer = <<"W1", "W2">>

\* a step in which a query delivers the collection queryHuc10ByHuc6 returns
QueryDelivers == last'.op \in {"whereResponse", "intersectsResponse"} /\ last'.resolved

C25_LayerEmptyOffStream ==
    [][/\ (last'.op = "routeChange" /\ routeName' # "stream") => huc10Layer' = <<>>
       /\ (last'.op \in {"whereResponse", "intersectsResponse"} /\ routeName # "stream") =>
              /\ ~last'.applied
              /\ huc10Layer' = huc10Layer
       /\ routeName' # "stream" => huc10Layer' = <<>>]_vars

\* the query of the latest click has delivered its collection after the user left the
\* stream route, where an earlier click had filled the layer
C25_Witness ==
    /\ routeName = "other"
    /\ last.op = "intersectsResponse"
    /\ last.resolved
    /\ ~last.superseded
    /\ last.result = <<"W3", "W4">>
    /\ DOMAIN huc10QueryCache = {<<"1", "2">>, <<"3">>}
    /\ huc10Layer = <<>>

\* the session is cleared: no token, no expiry, no gauges, nothing selected
SessionCleared ==
    /\ sessionToken' = ""
    /\ sessionExpiresAt' = "null"
    /\ gaugesGeoJson' = NoGauges
    /\ selectedGaugeIds' = <<>>
    /\ selectedDomainCodes' = <<>>
    /\ selectedDomainGaugeMap' = <<>>

(***************************************************************************)
(* C26: whenever sessionToken is empty, gaugesGeoJson is null and          *)
(* selectedGaugeIds, selectedDomainCodes and selectedDomainGaugeMap are    *)
(* empty.                                                                  *)
(***************************************************************************)
C26_NoSessionNoData ==
    sessionToken = "" =>
        /\ gaugesGeoJson = NoGauges
        /\ selectedGaugeIds = <<>>
        /\ selectedDomainCodes = <<>>
        /\ selectedDomainGaugeMap = <<>>

(***************************************************************************)
(* C27: login() is called from the signed-out form, with no token and no   *)
(* expiry, and whenever it raises an error sessionToken and                *)
(* sessionExpiresAt have those values again.                               *)
(***************************************************************************)
C27_FailedLoginSignedOut ==
    [][/\ last'.op = "loginStart" => (sessionToken = "" /\ sessionExpiresAt = "null")
       /\ (last'.login /\ last'.error # "") =>
              (sessionToken' = "" /\ sessionExpiresAt' = "null")]_vars

(***************************************************************************)
(* C28: when the download endpoint answers not-ok with the detail          *)
(* 'Invalid or expired STREAMS session token.', downloadSelectedData       *)
(* clears the session and raises an error with the message 'Your STREAMS   *)
(* session expired. Please sign in again.'                                 *)
(***************************************************************************)
C28_InvalidTokenOnDownload ==
    [][(last'.op = "downloadResponse" /\ last'.kind = "invalidToken") =>
           /\ SessionCleared
           /\ last'.error = "Your STREAMS session expired. Please sign in again."]_vars

(***************************************************************************)
(* C29: when logout() called with a token completes, whether its request   *)
(* was fulfilled or rejected, the token is empty, the expiry and the       *)
(* gauges are null and nothing is selected; logout() called with an empty  *)
(* token sends no request and changes nothing.                             *)
(***************************************************************************)
C29_LogoutEndsSignedOut ==
    [][/\ last'.op = "logoutStart" =>
              (sessionToken # "" /\ pending'.logout = pending.logout + 1)
       /\ last'.op = "logoutSettles" => SessionCleared
       /\ last'.op = "logoutWithoutToken" =>
              (sessionToken = "" /\ UNCHANGED storeVars)]_vars

\* a logout whose request was rejected has completed over a selected gauge
C29_Witness ==
    /\ last.op = "logoutSettles"
    /\ last.kind = "failed"
    /\ last.before.gauges # <<>>
    /\ sessionToken = ""
    /\ gaugesGeoJson = NoGauges
    /\ selectedGaugeIds = <<>>

(***************************************************************************)
(* C30: downloadSelectedData sends a request exactly when a token is held, *)
(* the session is not expired and a gauge is selected; otherwise it raises *)
(* an error, sends nothing and does not set loading.download; when the     *)
(* token is held and the session is expired the session is cleared.        *)
(***************************************************************************)
C30_DownloadPreconditions ==
    [][last'.op = "downloadCall" =>
          /\ last'.sent <=> (sessionToken # "" /\ sessionExpiresAt # "expired"
                                /\ selectedGaugeIds # <<>>)
          /\ last'.sent =>
                 /\ last'.error = ""
                 /\ pending'.download = pending.download + 1
                 /\ pending'.loadingDownload
          /\ ~last'.sent =>
                 /\ last'.error # ""
                 /\ pending' = pending
          /\ (sessionToken # "" /\ sessionExpiresAt = "expired") =>
                 /\ SessionCleared
                 /\ last'.error = "Your STREAMS session has expired. Please sign in again."
          /\ (sessionToken # "" /\ sessionExpiresAt # "expired" /\ selectedGaugeIds = <<>>) =>
                 UNCHANGED <<sessionToken, sessionExpiresAt, gaugesGeoJson>>]_vars

\* a download was refused for an expired session that had a gauge selected
C30_Witness ==
    /\ last.op = "downloadCall"
    /\ ~last.sent
    /\ last.error = "Your STREAMS session has expired. Please sign in again."
    /\ last.before.gauges # <<>>
    /\ sessionToken = ""
    /\ selectedGaugeIds = <<>>
    /\ ~pending.loadingDownload

(***************************************************************************)
(* C31: toggleGaugeSelection with a falsy id and toggleDomainSelection     *)
(* with a falsy code change no state of the store; toggleGaugeSelection    *)
(* with any id leaves selectedDomainCodes, selectedDomainGaugeMap,         *)
(* selectionBy and selectionType as they were.                             *)
(***************************************************************************)
C31_FalsyNoOpNarrowFrame ==
    [][/\ (last'.op = "toggleGaugeSelection" /\ last'.result = <<"">>) =>
              UNCHANGED storeVars
       /\ (last'.op = "toggleDomainSelection" /\ last'.norm = <<>>) =>
              UNCHANGED storeVars
       /\ last'.op = "toggleGaugeSelection" =>
              UNCHANGED <<selectedDomainCodes, selectedDomainGaugeMap, selectionBy,
                          selectionType>>]_vars

\* Single mode, a domain with its gauge selected: toggleGaugeSelection('') was called
C31_Witness ==
    /\ last.op = "toggleGaugeSelection"
    /\ last.result = <<"">>
    /\ selectionType = "Single"
    /\ selectedDomainCodes # <<>>
    /\ selectedGaugeIds # <<>>
    /\ last.before.gauges = selectedGaugeIds

(***************************************************************************)
(* C32: each flag of loading is true exactly when a call of its operation  *)
(* has started its request and has not settled: loading.login while        *)
(* login() runs, loading.options / gauges / download while a request of    *)
(* that kind is in flight.                                                 *)
(***************************************************************************)
C32_LoadingFlagsTrack ==
    /\ pending.loadingLogin <=> pending.login # "idle"
    /\ pending.loadingOptions <=> pending.options > 0
    /\ pending.loadingGauges <=> pending.gauges > 0
    /\ pending.loadingDownload <=> pending.download > 0

\* the decimal digits of a code, in order; none for null
DigitsOf(code) ==
    IF code = NullCode THEN <<>>
    ELSE SelectSeq(code, LAMBDA ch : ch \in {"0", "1", "2", "3", "4", "5", "6", "7", "8", "9"})

\* normalizeHucCode returns digits only, '' for null, and its result is a fixed point
NormalizeIsDigitOnlyIdempotent ==
    (codeCall.op = "normalizeHucCode" /\ codeCall.done) =>
        /\ codeCall.norm = DigitsOf(codeCall.a)
        /\ codeCall.a = NullCode => codeCall.norm = <<>>
        /\ codeCall.again = codeCall.norm

(***************************************************************************)
(* C33 as stated: normalizeHucCode is digit-only and idempotent and gives  *)
(* '' for null; a lookup for code b is answered by the cache entry of code *)
(* a, and a feature with code b is drawn selected for the selected code a, *)
(* exactly when a and b have equal digit sequences.                        *)
(***************************************************************************)
C33_SameIffDigitsEqual ==
    /\ NormalizeIsDigitOnlyIdempotent
    /\ (codeCall.op \in {"cacheKey", "selectedCode"} /\ codeCall.done) =>
           (codeCall.same <=> DigitsOf(codeCall.a) = DigitsOf(codeCall.b))

(***************************************************************************)
(* C33 amended: as stated, with the two codes treated as the same cache    *)
(* key and the same selected code exactly when their digit sequences are   *)
(* equal and not empty.                                                    *)
(***************************************************************************)
C33_SameIffDigitsEqualNonEmpty ==
    /\ NormalizeIsDigitOnlyIdempotent
    /\ (codeCall.op \in {"cacheKey", "selectedCode"} /\ codeCall.done) =>
           (codeCall.same <=> /\ DigitsOf(codeCall.a) = DigitsOf(codeCall.b)
                              /\ DigitsOf(codeCall.a) # <<>>)

\* the collection stored for '1-2' answers the lookup for '12'
C33_Witness ==
    /\ codeCall.op = "cacheKey"
    /\ codeCall.done
    /\ codeCall.a = <<"1", "-", "2">>
    /\ codeCall.b = <<"1", "2">>
    /\ codeCall.same

====
